---------------------------- MODULE Spec2Model ----------------------------
(***************************************************************************)
(* State-machine model of the streamloop supervisor: the recovery engine   *)
(* (src/src/server/recovery.ts, lines 1-460) and the persisted state store *)
(* (src/src/server/state.ts).                                              *)
(*                                                                         *)
(* Times are integers in tenths of a second; timer delays are in ms.       *)
(* The wall clock is abstracted to one bit, heartbeatOverdue, which is     *)
(* Date.now() - lastHeartbeatAt > heartbeatTimeoutMs.                      *)
(***************************************************************************)
EXTENDS Integers, Sequences, FiniteSets, TLC

\* ------------------------------------------------------------------ bounds
MaxPlaylists == 2          \* config.playlists has 1..MaxPlaylists entries
MaxSavedIndex == 3         \* a state file holds a playlistIndex in 0..MaxSavedIndex
MaxVideos == 2             \* totalVideos and video indices reported by the player
MaxConsecutiveErrors == 2  \* config.maxConsecutiveErrors
QualityThreshold == 1      \* ceil(qualityRecoveryDelayMs / 5000)
MaxStalled == 4            \* cap of the unbounded stalledHeartbeats counter
MaxNonPlaying == 7         \* cap of the unbounded nonPlayingHeartbeats counter
MaxPaused == 2             \* cap of the unbounded consecutivePausedHeartbeats counter
MaxRetryTimers == 1        \* pending error-retry timeouts
MaxInflight == 1           \* host calls / critical alerts awaited at once, per kind
MaxStarts == 2             \* recovery sequences started in one run
MaxMessages == 3           \* calls of DiscordNotifier.send in one run
MaxReconnects == 7         \* reconnect timers armed since the last successful connect
MaxRestartCalls == 1       \* GetStreamStatus / StartStream calls of the restart timer in flight
MaxSockets == 4            \* player connections accepted in one run
MaxProcessChecks == 2      \* tasklist calls of tryLaunchObs whose callback is outstanding

\* ------------------------------------------------------- program constants
STALL_THRESHOLD == 3
NON_PLAYING_THRESHOLD == 6
PAUSED_RESUME_THRESHOLD == 2
StallEpsilon == 10         \* Math.abs(...) < 1 second, in tenths
RecoveryDelayMs == 5000
EscalationDelayMs == 15000
CriticalRetryDelayMs == 60000
DEBOUNCE_MS == 5000
ReconnectBase == 10000     \* 5000 ms, in half milliseconds
ReconnectCap == 60000      \* 30000 ms, in half milliseconds
MAX_STREAM_RESTART_ATTEMPTS == 5
LAUNCH_AFTER_FAILURES == 2  \* failedReconnects < 2: no launch yet
STREAM_RESTART_DELAYS == <<10000, 30000, 60000, 60000, 60000>>
SkipCodesWithout150 == {100, 101}   \* a variant that retries error 150
SKIP_ERROR_CODES == {100, 101, 150}

\* YT.PlayerState
UNSTARTED == -1
ENDED == 0
PLAYING == 1
PAUSED == 2
BUFFERING == 3
CUED == 5
PlayerStates == {UNSTARTED, ENDED, PLAYING, PAUSED, BUFFERING, CUED}

\* RecoveryStep (types.ts)
None == "none"
RetryCurrent == "retryCurrent"
RefreshSource == "refreshSource"
ToggleVisibility == "toggleVisibility"
CriticalAlert == "criticalAlert"
RecoverySteps == {None, RetryCurrent, RefreshSource, ToggleVisibility, CriticalAlert}

\* ------------------------------------------------------------ input domains
PlaylistIds == <<"PLA", "PLB", "PLC", "PLD">>
VideoIds == {"abc", "v"}
Times == {0, 170, 178, 190}
ErrorCodes == {5, 100, 150}
Qualities == {"", "medium", "hd1080"}
ChangeStates == {ENDED, PLAYING, BUFFERING}

NoTimer == [next |-> "null", delay |-> 0]
Missing == <<>>

VARIABLES
    config,     \* AppConfig: [nPlaylists, qualityRecoveryEnabled]
    engine,     \* RecoveryEngine's private fields
    store,      \* StateManager: [current, debounceTimer]
    file,       \* contents of the state file at <path>
    client,     \* PlayerWebSocket.client is an OPEN socket
    ev,         \* the event handled by the last step
    out,        \* what the last step sent, called and notified, in order
    esc,        \* escalation steps executed since recovery last started
    starts,     \* how many times startRecoverySequence has run
    run,        \* the non-skip errors received in a row: [errors, clean]
    tmp,        \* contents of the temporary file at <path>.tmp
    proc,       \* "idle", inside writeToDisk before the rename, or "down"
    latest,     \* per field, the value the updates since load wrote last
    notifier,   \* DiscordNotifier: its fields, the clock and the requests it made
    obs,        \* OBSClient: its fields, its timers and the callbacks it fired
    ws          \* PlayerWebSocket: its client, the open sockets, the callbacks it fired

vars == <<config, engine, store, file, client, ev, out, esc, starts, run, tmp, proc, latest,
          notifier, obs, ws>>

\* The variables of the recovery engine and of the state store.
engineVars == <<config, engine, store, file, client, ev, out, esc, starts, run, tmp, proc, latest>>

\* --------------------------------------------------------------- state store
FieldOrder == <<"playlistIndex", "videoIndex", "videoId", "currentTime">>

\* JSON.stringify(this.current): the members in field order.
ToJson(rec) == [i \in 1..Len(FieldOrder) |-> <<FieldOrder[i], rec[FieldOrder[i]]>>]

JsonKeys(doc) == {doc[i][1] : i \in 1..Len(doc)}

JsonGet(doc, k) == doc[CHOOSE i \in 1..Len(doc) : doc[i][1] = k][2]

DefaultState == [playlistIndex |-> 0, videoIndex |-> 0, videoId |-> "", currentTime |-> 0]

\* The mark at the end of a text that was cut off while being written.
Cut == <<"...", 0>>

IsComplete(doc) == \A i \in 1..Len(doc) : doc[i] # Cut

\* What a write that did not finish can leave of a text.
Truncations(doc) == {Append(SubSeq(doc, 1, n), Cut) : n \in 0..(Len(doc) - 1)}

\* StateManager.load: defaults when the file is missing or does not parse,
\* playlistIndex 0 when absent.
Load(doc) ==
    IF doc = Missing \/ ~IsComplete(doc) THEN DefaultState
    ELSE [k \in DOMAIN DefaultState |->
            IF k \in JsonKeys(doc) THEN JsonGet(doc, k)
            ELSE IF k = "playlistIndex" THEN 0 ELSE DefaultState[k]]

\* A variant that never overwrites videoId.
MergeKeepVideoId(cur, partial) ==
    [k \in DOMAIN cur |-> IF k \in DOMAIN partial /\ k # "videoId" THEN partial[k] ELSE cur[k]]

\* Object.assign(this.current, partial)
Merge(cur, partial) ==
    [k \in DOMAIN cur |-> IF k \in DOMAIN partial THEN partial[k] ELSE cur[k]]

Emit(w, o) == [w EXCEPT !.out = Append(@, o)]

\* StateManager.update: merge, then debouncedWrite (re)arms the 2 s timer.
StateUpdate(w, partial) ==
    [w EXCEPT !.store.current = Merge(@, partial), !.store.debounceTimer = TRUE]

\* A variant that writes the text to <path> itself.
WriteFileInPlace(w, text) == [w EXCEPT !.file = text]

\* writeFileSync(tmpPath, text)
WriteFileSync(w, text) == [w EXCEPT !.tmp = text]

\* renameSync(tmpPath, this.filePath)
RenameSync(w) == [w EXCEPT !.file = w.tmp, !.tmp = Missing]

\* StateManager.writeToDisk, as one synchronous call: the rename replaces the
\* file, or an I/O error is caught and the file stays as it was.
WriteToDisk(w) ==
    IF w.ioOk THEN RenameSync(WriteFileSync(w, ToJson(w.store.current))) ELSE w

\* StateManager.flush
StateFlush(w) ==
    Emit(WriteToDisk([w EXCEPT !.store.debounceTimer = FALSE]), [type |-> "flush"])

\* PlayerWebSocket.send: dropped with a warning when no client is open.
WsSend(w, msg) == IF w.client THEN Emit(w, msg) ELSE w

\* ----------------------------------------------------------- recovery engine
\* A variant without the clamp of an out-of-range saved index.
PlaylistIndexUnclamped(w) == w.store.current.playlistIndex

PlaylistIndexOf(w) ==
    IF w.store.current.playlistIndex < w.config.nPlaylists
    THEN w.store.current.playlistIndex ELSE 0

\* getStatus (recovery.ts 76-91), without the clock readings and the
\* display-only playbackQuality.
GetStatus(w) ==
    [recoveryStep |-> w.engine.recoveryStep,
     consecutiveErrors |-> w.engine.consecutiveErrors,
     totalVideos |-> w.engine.totalVideos,
     playlistIndex |-> PlaylistIndexOf(w),
     totalPlaylists |-> w.config.nPlaylists,
     currentPlaylistId |-> PlaylistIds[PlaylistIndexOf(w) + 1]]

ClearRecoveryTimer(w) == [w EXCEPT !.engine.recoveryTimer = NoTimer]

\* A variant that resets without notifying.
ResetRecoverySilent(w) ==
    ClearRecoveryTimer([w EXCEPT !.engine.recoveryStep = None,
                                 !.esc = IF w.engine.recoveryStep # None THEN <<>> ELSE @])

\* resetRecovery (recovery.ts 443-452).
ResetRecovery(w) ==
    LET w1 == IF w.engine.recoveryStep # None
              THEN Emit(w, [type |-> "notifyResume",
                            videoIndex |-> w.store.current.videoIndex,
                            videoId |-> w.store.current.videoId])
              ELSE w
        w2 == [w1 EXCEPT !.engine.recoveryStep = None,
                         !.esc = IF w.engine.recoveryStep # None THEN <<>> ELSE @]
    IN ClearRecoveryTimer(w2)

ScheduleNextStep(w, nextStep, delayMs) ==
    [ClearRecoveryTimer(w) EXCEPT !.engine.recoveryTimer = [next |-> nextStep, delay |-> delayMs]]

\* executeStep up to its first await: the step is set and the recovery
\* notification is issued; the rest runs as a microtask after the caller.
ExecuteStepSync(w, step) ==
    LET w1 == [w EXCEPT !.engine.recoveryStep = step, !.micro = Append(@, step)]
    IN Emit(w1, [type |-> "notifyRecovery", step |-> step])

StartRecoverySequence(w) ==
    ExecuteStepSync([w EXCEPT !.esc = <<>>, !.starts = @ + 1], RetryCurrent)

Await(w, step) == [w EXCEPT !.engine.awaiting[step] = @ + 1]

\* executeStep after `await this.discord.notifyRecovery(step)`.
ExecuteStepRest(w, step) ==
    LET w1 == [w EXCEPT !.esc = Append(@, step)]
    IN CASE step = RetryCurrent ->
              ScheduleNextStep(WsSend(w1, [type |-> "retryCurrent"]), RefreshSource, RecoveryDelayMs)
         [] step = RefreshSource ->
              Await(Emit(w1, [type |-> "refreshBrowserSource"]), step)
         [] step = ToggleVisibility ->
              Await(Emit(w1, [type |-> "toggleBrowserSource"]), step)
         [] step = CriticalAlert ->
              Await(Emit(w1, [type |-> "notifyCritical"]), step)

RECURSIVE RunMicrotasks(_)
RunMicrotasks(w) ==
    IF w.micro = <<>> THEN w
    ELSE RunMicrotasks(ExecuteStepRest([w EXCEPT !.micro = Tail(@)], Head(w.micro)))

StillBroken(w) ==
    \/ w.engine.heartbeatOverdue
    \/ w.engine.stalledHeartbeats >= STALL_THRESHOLD
    \/ w.engine.nonPlayingHeartbeats >= NON_PLAYING_THRESHOLD

OnPlayerConnect(w) ==
    LET w1 == ResetRecovery(w)
        w2 == [w1 EXCEPT !.engine.heartbeatOverdue = FALSE,
                         !.engine.nonPlayingHeartbeats = 0]
        savedState == w2.store.current
    IN WsSend(w2, [type |-> "loadPlaylist",
                   playlistId |-> PlaylistIds[PlaylistIndexOf(w2) + 1],
                   index |-> savedState.videoIndex,
                   loop |-> (w2.config.nPlaylists = 1),
                   startTime |-> savedState.currentTime])


Abs(x) == IF x < 0 THEN -x ELSE x

\* QUALITY_RANKS[q] ?? -1
QualityRank(q) ==
    CASE q = "small" -> 0 [] q = "medium" -> 1 [] q = "large" -> 2 [] q = "hd720" -> 3
      [] q = "hd1080" -> 4 [] q = "hd1440" -> 5 [] q = "hd2160" -> 6 [] q = "highres" -> 7
      [] OTHER -> -1

\* QUALITY_RANKS[config.minQuality] ?? 3, with minQuality = 'hd720'
MinQualityRank == QualityRank("hd720")

\* A variant that counts only an unchanged currentTime as no progress.
NoProgressExact(w, msg) == msg.currentTime = w.engine.lastProgressTime

\* A variant that counts a position up to 3 s away as no progress.
NoProgressWide(w, msg) == Abs(msg.currentTime - w.engine.lastProgressTime) < 30

\* The condition under which a heartbeat counts as no progress.
NoProgress(w, msg) == Abs(msg.currentTime - w.engine.lastProgressTime) < StallEpsilon

\* A variant that resets recovery on every heartbeat that is not stalled.
StallDetectionResetsAlways(w, msg) ==
    IF msg.playerState = PLAYING /\ msg.currentTime > 0 /\ NoProgress(w, msg)
    THEN LET w1 == [w EXCEPT !.engine.stalledHeartbeats = @ + 1]
         IN IF w1.engine.stalledHeartbeats >= STALL_THRESHOLD
               /\ w1.engine.recoveryStep = None
            THEN StartRecoverySequence(
                     Emit(w1, [type |-> "notifyRecovery", step |-> "stall"]))
            ELSE w1
    ELSE ResetRecovery([w EXCEPT !.engine.stalledHeartbeats = 0,
                                 !.engine.lastProgressTime = msg.currentTime])

\* Heartbeat, stall detection (recovery.ts 147-168).
StallDetection(w, msg) ==
    IF msg.playerState = PLAYING /\ msg.currentTime > 0
    THEN IF NoProgress(w, msg)
         THEN LET w1 == [w EXCEPT !.engine.stalledHeartbeats = @ + 1]
              IN IF w1.engine.stalledHeartbeats >= STALL_THRESHOLD
                    /\ w1.engine.recoveryStep = None
                 THEN StartRecoverySequence(
                          Emit(w1, [type |-> "notifyRecovery", step |-> "stall"]))
                 ELSE w1
         ELSE ResetRecovery([w EXCEPT !.engine.stalledHeartbeats = 0,
                                      !.engine.lastProgressTime = msg.currentTime])
    ELSE LET w1 == [w EXCEPT !.engine.stalledHeartbeats = 0,
                             !.engine.lastProgressTime = msg.currentTime]
         IN IF w1.engine.recoveryStep # None /\ msg.playerState = PLAYING
            THEN ResetRecovery(w1) ELSE w1

\* Heartbeat, quality recovery (recovery.ts 173-193).  The playbackQuality
\* shadow kept for the dashboard (170-172) is display-only and not modelled.
QualityRecovery(w0, msg) ==
    LET w == w0
        currentRank == QualityRank(msg.playbackQuality)
    IN IF w.config.qualityRecoveryEnabled /\ msg.playbackQuality # ""
          /\ msg.playerState = PLAYING
       THEN IF currentRank >= 0 /\ currentRank < MinQualityRank
            THEN LET w1 == [w EXCEPT !.engine.lowQualityHeartbeats = @ + 1]
                 IN IF w1.engine.lowQualityHeartbeats >= QualityThreshold
                       /\ w1.engine.recoveryStep = None
                    THEN StartRecoverySequence(
                             [Emit(w1, [type |-> "notifyRecovery", step |-> "lowQuality"])
                                EXCEPT !.engine.lowQualityHeartbeats = 0])
                    ELSE w1
            ELSE [w EXCEPT !.engine.lowQualityHeartbeats = 0]
       ELSE IF msg.playerState # PLAYING
            THEN [w EXCEPT !.engine.lowQualityHeartbeats = 0]
            ELSE w

\* A variant that persists currentTime with every heartbeat.
HeartbeatUpdateAlways(msg) ==
    [videoIndex |-> msg.videoIndex, videoId |-> msg.videoId, currentTime |-> msg.currentTime]

\* The fields a heartbeat persists (recovery.ts 196-207).  videoId stands
\* also for videoTitle, videoDuration and nextVideoId, which the same object
\* literal carries (198-201).
HeartbeatUpdate(msg) ==
    LET base == [videoIndex |-> msg.videoIndex, videoId |-> msg.videoId]
    IN IF msg.playerState = PLAYING \/ msg.playerState = PAUSED \/ msg.currentTime > 0
       THEN [videoIndex |-> msg.videoIndex, videoId |-> msg.videoId,
             currentTime |-> msg.currentTime]
       ELSE base

\* Heartbeat, state write (recovery.ts 194-209).
HeartbeatStateWrite(w, msg) ==
    IF w.engine.stalledHeartbeats < STALL_THRESHOLD
    THEN StateUpdate(w, HeartbeatUpdate(msg))
    ELSE w

\* Heartbeat, paused auto-resume (recovery.ts 210-218, handlePaused 131-135).
PausedAutoResume(w, msg) ==
    IF msg.playerState = PAUSED
    THEN LET w1 == [w EXCEPT !.engine.consecutivePausedHeartbeats = @ + 1]
         IN IF w1.engine.consecutivePausedHeartbeats >= PAUSED_RESUME_THRESHOLD
            THEN WsSend(w1, [type |-> "resume"]) ELSE w1
    ELSE [w EXCEPT !.engine.consecutivePausedHeartbeats = 0]

\* A variant that counts a PAUSED heartbeat as well.
NonPlayingDetectionCountsPaused(w, msg) ==
    IF msg.playerState = PLAYING
    THEN [w EXCEPT !.engine.nonPlayingHeartbeats = 0]
    ELSE LET w1 == [w EXCEPT !.engine.nonPlayingHeartbeats = @ + 1]
         IN IF w1.engine.nonPlayingHeartbeats >= NON_PLAYING_THRESHOLD
               /\ w1.engine.recoveryStep = None
            THEN StartRecoverySequence(
                     Emit(w1, [type |-> "notifyRecovery", step |-> "nonPlaying"]))
            ELSE w1

\* Heartbeat, non-playing detection (recovery.ts 219-231).
NonPlayingDetection(w, msg) ==
    IF msg.playerState = PLAYING
    THEN [w EXCEPT !.engine.nonPlayingHeartbeats = 0]
    ELSE IF msg.playerState # PAUSED
         THEN LET w1 == [w EXCEPT !.engine.nonPlayingHeartbeats = @ + 1]
              IN IF w1.engine.nonPlayingHeartbeats >= NON_PLAYING_THRESHOLD
                    /\ w1.engine.recoveryStep = None
                 THEN StartRecoverySequence(
                          Emit(w1, [type |-> "notifyRecovery", step |-> "nonPlaying"]))
                 ELSE w1
         ELSE w

HandleHeartbeat(w, msg) ==
    LET w1 == [w EXCEPT !.engine.heartbeatOverdue = FALSE]
        w2 == StallDetection(w1, msg)
        w3 == QualityRecovery(w2, msg)
        w4 == HeartbeatStateWrite(w3, msg)
        w5 == PausedAutoResume(w4, msg)
    IN NonPlayingDetection(w5, msg)

\* A variant that keeps the video count of the finished playlist.
AdvanceKeepsTotal(w) ==
    LET next == (w.store.current.playlistIndex + 1) % w.config.nPlaylists
        w1 == StateUpdate(w, [playlistIndex |-> next, videoIndex |-> 0,
                              videoId |-> "", currentTime |-> 0])
        w2 == StateFlush(w1)
        w4 == WsSend(w2, [type |-> "loadPlaylist", playlistId |-> PlaylistIds[next + 1],
                          index |-> 0, loop |-> (w.config.nPlaylists = 1)])
    IN [w4 EXCEPT !.engine.consecutiveErrors = 0]

AdvanceToNextPlaylist(w) ==
    LET next == (w.store.current.playlistIndex + 1) % w.config.nPlaylists
        w1 == StateUpdate(w, [playlistIndex |-> next, videoIndex |-> 0,
                              videoId |-> "", currentTime |-> 0])
        w2 == StateFlush(w1)
        w3 == [w2 EXCEPT !.engine.totalVideos = 0]
        w4 == WsSend(w3, [type |-> "loadPlaylist", playlistId |-> PlaylistIds[next + 1],
                          index |-> 0, loop |-> (w.config.nPlaylists = 1)])
    IN [w4 EXCEPT !.engine.consecutiveErrors = 0]

SkipVideo(w, fromIndex, videoId) ==
    IF w.engine.totalVideos > 0 /\ fromIndex + 1 >= w.engine.totalVideos
    THEN AdvanceToNextPlaylist(w)
    ELSE LET nextIndex == IF w.engine.totalVideos > 0
                          THEN (fromIndex + 1) % w.engine.totalVideos
                          ELSE fromIndex + 1
             w1 == Emit(w, [type |-> "notifySkip", videoIndex |-> fromIndex,
                            videoId |-> videoId])
             w2 == WsSend(w1, [type |-> "skip", index |-> nextIndex])
             w3 == StateUpdate(w2, [videoIndex |-> nextIndex])
         IN [w3 EXCEPT !.engine.consecutiveErrors = 0]

\* A variant that skips one error later than maxConsecutiveErrors.
HandlePlaybackErrorLate(w, msg) ==
    IF msg.errorCode \in SKIP_ERROR_CODES
    THEN SkipVideo(w, msg.videoIndex, msg.videoId)
    ELSE LET w1 == [w EXCEPT !.engine.consecutiveErrors = @ + 1]
             w2 == Emit(w1, [type |-> "notifyError", videoIndex |-> msg.videoIndex,
                             videoId |-> msg.videoId, errorCode |-> msg.errorCode,
                             attempt |-> w1.engine.consecutiveErrors])
         IN IF w2.engine.consecutiveErrors > MaxConsecutiveErrors
            THEN [SkipVideo(w2, msg.videoIndex, msg.videoId)
                    EXCEPT !.engine.consecutiveErrors = 0]
            ELSE [w2 EXCEPT !.engine.retryTimers = @ + 1]

HandlePlaybackError(w, msg) ==
    IF msg.errorCode \in SKIP_ERROR_CODES
    THEN SkipVideo(w, msg.videoIndex, msg.videoId)
    ELSE LET w1 == [w EXCEPT !.engine.consecutiveErrors = @ + 1]
             w2 == Emit(w1, [type |-> "notifyError", videoIndex |-> msg.videoIndex,
                             videoId |-> msg.videoId, errorCode |-> msg.errorCode,
                             attempt |-> w1.engine.consecutiveErrors])
         IN IF w2.engine.consecutiveErrors >= MaxConsecutiveErrors
            THEN [SkipVideo(w2, msg.videoIndex, msg.videoId)
                    EXCEPT !.engine.consecutiveErrors = 0]
            ELSE [w2 EXCEPT !.engine.retryTimers = @ + 1]

\* A variant that advances on ENDED also with a single playlist.
HandleStateChangeAlways(w, msg) ==
    LET w1 == [w EXCEPT !.engine.heartbeatOverdue = FALSE]
        w2 == StateUpdate(w1, [videoIndex |-> msg.videoIndex, videoId |-> msg.videoId])
        w3 == IF msg.playerState = PLAYING
              THEN [w2 EXCEPT !.engine.consecutiveErrors = 0] ELSE w2
    IN IF msg.playerState = ENDED /\ w3.engine.totalVideos > 0
          /\ msg.videoIndex = w3.engine.totalVideos - 1
       THEN AdvanceToNextPlaylist(w3)
       ELSE w3

HandleStateChange(w, msg) ==
    LET w1 == [w EXCEPT !.engine.heartbeatOverdue = FALSE]
        w2 == StateUpdate(w1, [videoIndex |-> msg.videoIndex, videoId |-> msg.videoId])
        w3 == IF msg.playerState = PLAYING
              THEN [w2 EXCEPT !.engine.consecutiveErrors = 0] ELSE w2
    IN IF msg.playerState = ENDED /\ w3.engine.totalVideos > 0
          /\ msg.videoIndex = w3.engine.totalVideos - 1
          /\ w3.config.nPlaylists > 1
       THEN AdvanceToNextPlaylist(w3)
       ELSE w3

\* A variant that keeps an out-of-range videoIndex.
HandlePlaylistLoadedNoClamp(w, msg) ==
    [w EXCEPT !.engine.totalVideos = msg.totalVideos,
              !.engine.nonPlayingHeartbeats = 0]

\* playlistLoaded (recovery.ts 253-265).
HandlePlaylistLoaded(w, msg) ==
    LET w1 == [w EXCEPT !.engine.totalVideos = msg.totalVideos,
                        !.engine.nonPlayingHeartbeats = 0]
        currentVideoIndex == w1.store.current.videoIndex
    IN IF msg.totalVideos > 0 /\ currentVideoIndex >= msg.totalVideos
       THEN WsSend(StateUpdate(w1, [videoIndex |-> 0]), [type |-> "skip", index |-> 0])
       ELSE w1

\* The callback of the 5 s heartbeat monitor (recovery.ts 334-343).
HeartbeatMonitorCallback(w) ==
    IF ~w.client THEN w
    ELSE IF w.engine.heartbeatOverdue /\ w.engine.recoveryStep = None
    THEN StartRecoverySequence(w)
    ELSE w

\* A variant whose 60 s timer only resets the step.
RecoveryTimerCallbackNoReentry(w, t) ==
    IF t.next = "restart" THEN [w EXCEPT !.engine.recoveryStep = None]
    ELSE IF w.engine.recoveryStep = None THEN w
    ELSE IF StillBroken(w) THEN ExecuteStepSync(w, t.next)
    ELSE ResetRecovery(w)

\* The callback of a timer armed by scheduleNextStep (recovery.ts 427-440) or
\* by the CriticalAlert step (recovery.ts 417-420).
RecoveryTimerCallback(w, t) ==
    IF t.next = "restart"
    THEN StartRecoverySequence([w EXCEPT !.engine.recoveryStep = None])
    ELSE IF w.engine.recoveryStep = None THEN w
    ELSE IF StillBroken(w) THEN ExecuteStepSync(w, t.next)
    ELSE ResetRecovery(w)

\* executeStep after the awaited host call or critical notification returned.
ExecuteStepResume(w, step) ==
    LET w1 == [w EXCEPT !.engine.awaiting[step] = @ - 1]
    IN CASE step = RefreshSource -> ScheduleNextStep(w1, ToggleVisibility, EscalationDelayMs)
         [] step = ToggleVisibility -> ScheduleNextStep(w1, CriticalAlert, EscalationDelayMs)
         [] step = CriticalAlert ->
              [w1 EXCEPT !.engine.recoveryTimer = [next |-> "restart", delay |-> CriticalRetryDelayMs],
                         !.engine.leaked = IF w1.engine.recoveryTimer # NoTimer
                                           THEN @ \cup {w1.engine.recoveryTimer} ELSE @]


\* ------------------------------------------------------------------ notifier
\* DiscordNotifier (src/unnamed/part_009, lines 95-277).  A queued message is
\* [content, level]; contents are the numbers of the send calls.  Times are
\* in ms.  accepted, requests and lastSendAt record what was queued and sent,
\* settled how the fetch of each request ended; armed counts the timeouts
\* that were set and have neither fired nor been cleared.
Levels == {"info", "warn", "error"}

LEVEL_PRIORITY(level) ==
    CASE level = "info" -> 0 [] level = "warn" -> 1 [] level = "error" -> 2

ColorMap(level) ==
    CASE level = "info" -> 3447003 [] level = "warn" -> 16776960 [] level = "error" -> 15158332

InitNotifier(discord) ==
    [discord |-> discord, queue |-> <<>>, flushTimer |-> FALSE, dueAt |-> 0,
     clock |-> 0, calls |-> 0, lastSendAt |-> 0, accepted |-> <<>>, requests |-> <<>>,
     settled |-> <<>>, armed |-> 0, last |-> [kind |-> "init"]]

Enabled(n) == n.discord.webhookUrl # ""

\* messages.reduce(..., 'info') of flush (part_009 164-167).
RECURSIVE HighestLevelFrom(_, _)
HighestLevelFrom(max, messages) ==
    IF messages = <<>> THEN max
    ELSE HighestLevelFrom(IF LEVEL_PRIORITY(Head(messages).level) > LEVEL_PRIORITY(max)
                          THEN Head(messages).level ELSE max,
                          Tail(messages))

HighestLevel(messages) == HighestLevelFrom("info", messages)

\* A variant that pings the role on every request.
RoleMentionAlways(discord, highestLevel) == discord.rolePing

\* body.content (part_009 206-208); "" stands for an absent content.
RoleMention(discord, highestLevel) ==
    IF highestLevel = "error" /\ discord.rolePing # "" THEN discord.rolePing ELSE ""

\* The webhook body built by flush (part_009 163-208): the description
\* lists the messages in queue order, prefixed by their level's emoji when
\* batched; footerExtra is the n of "n events", 0 when there is none.
Payload(n, messages) ==
    LET highestLevel == HighestLevel(messages)
        isBatched == Len(messages) > 1
    IN [description |-> [i \in 1..Len(messages) |->
                            [prefix |-> IF isBatched THEN messages[i].level ELSE "",
                             content |-> messages[i].content]],
        title |-> highestLevel,
        color |-> ColorMap(highestLevel),
        footerExtra |-> IF isBatched THEN Len(messages) ELSE 0,
        content |-> RoleMention(n.discord, highestLevel)]

\* A variant of flush that leaves the debounce timer armed.
NotifierFlushKeepTimer(n, by) ==
    IF n.queue = <<>> THEN n
    ELSE [n EXCEPT !.queue = <<>>,
                   !.requests = Append(@, [body |-> Payload(n, n.queue),
                                           by |-> by, at |-> n.clock])]

\* flush up to the fetch (part_009 155-215); by is the caller.
NotifierFlush(n, by) ==
    LET n1 == [n EXCEPT !.flushTimer = FALSE,
                        !.armed = IF n.flushTimer /\ by # "timer" THEN @ - 1 ELSE @]
    IN IF n1.queue = <<>> THEN n1
       ELSE [n1 EXCEPT !.queue = <<>>,
                       !.requests = Append(@, [body |-> Payload(n, n.queue),
                                               by |-> by, at |-> n.clock])]

\* What the fetch of a request can do: resolve with a 2xx status, resolve
\* with another status, or reject.
FetchOutcomes == {"ok", "non2xx", "rejects"}

\* A variant that puts the messages of a failed request back into the queue.
NotifierFetchSettledRequeue(n, r, outcome) ==
    LET n1 == [n EXCEPT !.settled = Append(@, [request |-> r, outcome |-> outcome,
                                               logged |-> outcome # "ok", thrown |-> FALSE])]
        again == [i \in DOMAIN n.requests[r].body.description |->
                    [content |-> n.requests[r].body.description[i].content,
                     level |-> n.requests[r].body.title]]
    IN IF outcome = "ok" THEN n1
       ELSE [n1 EXCEPT !.queue = again \o @, !.flushTimer = TRUE,
                       !.armed = IF n.flushTimer THEN @ ELSE @ + 1,
                       !.dueAt = IF n.flushTimer THEN @ ELSE n.clock + DEBOUNCE_MS]

\* flush after the fetch of request r settled (part_009 210-221): a status
\* that is not ok and a rejection are logged; the catch keeps a rejection
\* from leaving flush.
NotifierFetchSettled(n, r, outcome) ==
    [n EXCEPT !.settled = Append(@, [request |-> r, outcome |-> outcome,
                                     logged |-> outcome # "ok", thrown |-> FALSE])]

Accept(n, content, level) ==
    [n EXCEPT !.queue = Append(@, [content |-> content, level |-> level]),
              !.accepted = Append(@, [content |-> content, level |-> level,
                                      at |-> n.clock, opens |-> n.queue = <<>>])]

\* A variant of send that flushes on every message.
NotifierSendUnbatched(n, content, level) ==
    IF ~Enabled(n) THEN n ELSE NotifierFlush(Accept(n, content, level), "error")

\* A variant of send that restarts the debounce delay with every message.
NotifierSendExtends(n, content, level) ==
    IF ~Enabled(n) THEN n
    ELSE LET n1 == Accept(n, content, level)
         IN IF level = "error" THEN NotifierFlush(n1, "error")
            ELSE [n1 EXCEPT !.flushTimer = TRUE, !.dueAt = n.clock + DEBOUNCE_MS,
                            !.armed = IF n1.flushTimer THEN @ ELSE @ + 1]

\* send (part_009 138-153).
NotifierSend(n, content, level) ==
    IF ~Enabled(n) THEN n
    ELSE LET n1 == Accept(n, content, level)
         IN IF level = "error" THEN NotifierFlush(n1, "error")
            ELSE IF ~n1.flushTimer
            THEN [n1 EXCEPT !.flushTimer = TRUE, !.dueAt = n.clock + DEBOUNCE_MS,
                            !.armed = @ + 1]
            ELSE n1

\* The typed notifications of part_009 224-276 and the level each sends with.
EventKinds ==
    {"error", "skip", "recovery", "critical", "resume", "obsDisconnect", "obsReconnect"}

NotifyLevel(kind) ==
    CASE kind \in {"error", "skip", "recovery", "obsDisconnect"} -> "warn"
      [] kind = "critical" -> "error"
      [] kind \in {"resume", "obsReconnect"} -> "info"

\* A variant that ignores the per-event toggles.
NotifyIgnoringToggle(n, kind, content) == NotifierSend(n, content, NotifyLevel(kind))

\* notifyError .. notifyObsReconnect (part_009 224-276): nothing when the
\* event's toggle is off, else send with the event's level.
Notify(n, kind, content) ==
    IF ~n.discord.events[kind] THEN n
    ELSE NotifierSend(n, content, NotifyLevel(kind))

\* ---------------------------------------------------------------- host client
\* OBSClient with the stream-restart backoff (src/src/server/__tests__/
\* updater.test.ts, lines 56-520).  Delays of the stream restart are in ms;
\* reconnectDelay is in half milliseconds, so that 25312.5 ms is an integer.
\* dismissObsDialogs starts a process and changes no field; it is left out.
\* config.obsPathFound is whether resolveObsPath finds the executable;
\* processChecks counts the tasklist calls of tryLaunchObs whose callback is
\* outstanding, launches the children spawned since the client last
\* connected or lost its connection.  hostStream is the host's
\* stream output, playerHealthy the value of the isPlayerHealthy callback.
\* pendingReconnects, delays, sinceStarted, sinceReset, lastStreamEvent,
\* fired and calls record what the client did; disconnectCalled records
\* that disconnect() has been called on this instance.
STARTED == "OBS_WEBSOCKET_OUTPUT_STARTED"
STOPPED == "OBS_WEBSOCKET_OUTPUT_STOPPED"
STARTING == "OBS_WEBSOCKET_OUTPUT_STARTING"

InitObs(cfg) ==
    [config |-> cfg, connected |-> FALSE, connecting |-> FALSE,
     reconnectTimer |-> FALSE, reconnectDelay |-> ReconnectBase,
     pendingReconnects |-> 0, delays |-> <<>>,
     streamRestartTimer |-> FALSE, streamRestartTimerDelay |-> 0,
     streamRestartAttempts |-> 0, statusCalls |-> <<>>, startCalls |-> 0,
     failedReconnects |-> 0, obsLaunched |-> FALSE, processChecks |-> 0, launches |-> 0,
     hostStream |-> FALSE, playerHealthy |-> FALSE, disconnectCalled |-> FALSE,
     sinceStarted |-> 0, sinceReset |-> 0, lastStreamEvent |-> "none",
     fired |-> <<>>, calls |-> <<>>, last |-> [kind |-> "init"]]

Min(a, b) == IF a < b THEN a ELSE b

\* A variant with the doubling backoff of an earlier client, capped at 60 s.
NextReconnectDelayDoubling(delay) == Min(delay * 2, 120000)

\* Math.min(this.reconnectDelay * 1.5, 30000) (updater.test.ts 142).
NextReconnectDelay(delay) == Min((delay * 3) \div 2, ReconnectCap)

\* scheduleReconnect (updater.test.ts 135-143).
ScheduleReconnect(o) ==
    IF o.reconnectTimer THEN o
    ELSE [o EXCEPT !.reconnectTimer = TRUE,
                   !.pendingReconnects = @ + 1,
                   !.delays = Append(@, o.reconnectDelay),
                   !.reconnectDelay = NextReconnectDelay(o.reconnectDelay)]

Fire(o, callback) == [o EXCEPT !.fired = Append(@, callback)]

\* clearStreamRestartTimer (updater.test.ts 294-299).
ClearStreamRestartTimer(o) == [o EXCEPT !.streamRestartTimer = FALSE]

\* A variant that restarts after 10 s every time.
StreamRestartDelayFlat(attempts) == STREAM_RESTART_DELAYS[1]

\* STREAM_RESTART_DELAYS[Math.min(attempts, length - 1)] (updater.test.ts 256-258).
StreamRestartDelay(attempts) ==
    STREAM_RESTART_DELAYS[Min(attempts, Len(STREAM_RESTART_DELAYS) - 1) + 1]

\* A variant that keeps the counter when the attempts are exhausted.
GiveUpKeepCount(o) == Fire(o, [name |-> "onStreamRestartFailed"])

\* Max attempts reached (updater.test.ts 248-254).
GiveUp(o) ==
    Fire([o EXCEPT !.streamRestartAttempts = 0], [name |-> "onStreamRestartFailed"])

\* scheduleStreamRestart up to setTimeout (updater.test.ts 246-268).
ScheduleStreamRestart(o) ==
    IF o.streamRestartTimer THEN o
    ELSE IF o.streamRestartAttempts >= MAX_STREAM_RESTART_ATTEMPTS THEN GiveUp(o)
    ELSE Fire([o EXCEPT !.streamRestartAttempts = @ + 1,
                        !.streamRestartTimer = TRUE,
                        !.streamRestartTimerDelay = StreamRestartDelay(o.streamRestartAttempts)],
              [name |-> "onStreamDrop", attempt |-> o.streamRestartAttempts + 1,
               maxAttempts |-> MAX_STREAM_RESTART_ATTEMPTS])

\* handleStreamStateChanged for STARTED (updater.test.ts 227-238).
HandleStreamStarted(o) ==
    LET o1 == IF o.streamRestartAttempts > 0
              THEN Fire(o, [name |-> "onStreamRestart", attempts |-> o.streamRestartAttempts])
              ELSE o
    IN ClearStreamRestartTimer([o1 EXCEPT !.streamRestartAttempts = 0])

\* handleStreamStateChanged (updater.test.ts 224-244).
HandleStreamStateChanged(o, outputState) ==
    IF outputState = STARTED THEN HandleStreamStarted(o)
    ELSE IF outputState = STOPPED
    THEN IF ~o.config.obsAutoStream THEN o ELSE ScheduleStreamRestart(o)
    ELSE o

\* What the restart timer callback checks before it asks the host.
Gate(o) ==
    [connected |-> o.connected, obsAutoStream |-> o.config.obsAutoStream,
     playerHealthy |-> o.playerHealthy]

\* A variant of the timer callback without the player-health check.
StreamRestartTimerCallbackNoHealth(o) ==
    LET o1 == [o EXCEPT !.streamRestartTimer = FALSE]
    IN IF ~o1.connected \/ ~o1.config.obsAutoStream THEN o1
       ELSE [o1 EXCEPT !.statusCalls = Append(@, Gate(o)),
                       !.calls = Append(@, "GetStreamStatus")]

\* The restart timer callback up to `await this.obs.call('GetStreamStatus')`
\* (updater.test.ts 268-277).
StreamRestartTimerCallback(o) ==
    LET o1 == [o EXCEPT !.streamRestartTimer = FALSE]
    IN IF ~o1.connected \/ ~o1.config.obsAutoStream THEN o1
       ELSE IF ~o1.playerHealthy THEN o1
       ELSE [o1 EXCEPT !.statusCalls = Append(@, Gate(o)),
                       !.calls = Append(@, "GetStreamStatus")]

\* The callback after GetStreamStatus (updater.test.ts 277-290); result is
\* "active", "inactive" or "throws".
StreamStatusReturns(o, result) ==
    LET o1 == [o EXCEPT !.statusCalls = Tail(@)]
    IN CASE result = "active" -> [o1 EXCEPT !.streamRestartAttempts = 0]
         [] result = "inactive" -> [o1 EXCEPT !.startCalls = @ + 1,
                                              !.calls = Append(@, "StartStream")]
         [] result = "throws" -> ScheduleStreamRestart(o1)

\* The callback after StartStream (updater.test.ts 284-290).
StartStreamReturns(o, ok) ==
    LET o1 == [o EXCEPT !.startCalls = @ - 1]
    IN IF ok THEN o1 ELSE ScheduleStreamRestart(o1)

\* The 'ConnectionClosed' listener (updater.test.ts 83-93).
OnConnectionClosed(o) ==
    IF o.connected
    THEN ScheduleReconnect(Fire(ClearStreamRestartTimer(
                                    [o EXCEPT !.connected = FALSE, !.failedReconnects = 0,
                                              !.obsLaunched = FALSE, !.launches = 0]),
                                [name |-> "onDisconnect"]))
    ELSE o

\* connect after obs.connect resolved (updater.test.ts 116-121).
OnConnected(o) ==
    Fire([o EXCEPT !.connecting = FALSE, !.connected = TRUE,
                   !.reconnectDelay = ReconnectBase, !.delays = <<>>,
                   !.failedReconnects = 0, !.obsLaunched = FALSE, !.launches = 0],
         [name |-> "onConnect"])

\* tryLaunchObs up to execFile('tasklist', ...) (updater.test.ts 145-157).
TryLaunchObs(o) ==
    IF ~o.config.obsAutoRestart THEN o
    ELSE IF o.obsLaunched THEN o
    ELSE IF o.failedReconnects < LAUNCH_AFTER_FAILURES THEN o
    ELSE IF ~o.config.obsPathFound THEN o
    ELSE [o EXCEPT !.processChecks = @ + 1, !.calls = Append(@, "tasklist")]

\* The callback of execFile('tasklist', ...) (updater.test.ts 157-188); result
\* is "err", "running" (the image name is in stdout), "spawned" or
\* "spawnThrows".
ProcessCheckCallback(o, result) ==
    LET o1 == [o EXCEPT !.processChecks = @ - 1]
    IN CASE result = "err" -> o1
         [] result = "running" -> o1
         [] result = "spawned" -> [o1 EXCEPT !.obsLaunched = TRUE, !.launches = @ + 1,
                                             !.calls = Append(@, "spawn")]
         [] result = "spawnThrows" -> [o1 EXCEPT !.obsLaunched = FALSE]

\* The 'error' listener of the spawned child (updater.test.ts 180-183): the
\* launch failed, so it no longer counts as one.
SpawnErrorCallback(o) == [o EXCEPT !.obsLaunched = FALSE, !.launches = @ - 1]

\* connect after obs.connect rejected (updater.test.ts 122-132).
OnConnectFailed(o) ==
    ScheduleReconnect(TryLaunchObs([o EXCEPT !.connecting = FALSE,
                                             !.failedReconnects = @ + 1]))

\* The reconnect timer callback up to `await this.obs.connect` (updater.test.ts 138-141).
ReconnectTimerCallback(o) ==
    [o EXCEPT !.reconnectTimer = FALSE, !.pendingReconnects = @ - 1, !.connecting = TRUE]

\* disconnect up to `await this.obs.disconnect()` (updater.test.ts 508-519).
\* The stream-check interval of stopStreamMonitor is not part of the model.
ObsDisconnect(o) ==
    [ClearStreamRestartTimer(o) EXCEPT !.reconnectTimer = FALSE,
                                       !.pendingReconnects = 0,
                                       !.connected = FALSE]

\* ----------------------------------------------------------- player transport
\* PlayerWebSocket (src/unnamed/part_008).  Sockets are numbered in the
\* order they are accepted; 0 is null.  open is the set of sockets whose
\* readyState is OPEN; fired, sentTo and closedByServer record what the
\* last step did.
InitWs ==
    [client |-> 0, open |-> {}, accepted |-> 0, fired |-> <<>>, sentTo |-> 0,
     closedByServer |-> {}, last |-> [kind |-> "init"]]

\* The 'connection' listener (part_008 16-19).
WsOnConnection(t, socket) ==
    [t EXCEPT !.client = socket, !.open = @ \cup {socket}, !.accepted = socket,
              !.fired = Append(@, [name |-> "onConnect"])]

\* The 'message' listener of a socket (part_008 21-28).
WsOnMessage(t, socket) ==
    [t EXCEPT !.fired = Append(@, [name |-> "onMessage", from |-> socket])]

\* The 'close' listener of a socket (part_008 30-34).
WsOnClose(t, socket) ==
    [t EXCEPT !.open = @ \ {socket},
              !.client = IF @ = socket THEN 0 ELSE @,
              !.fired = Append(@, [name |-> "onDisconnect", from |-> socket])]

\* isConnected (part_008 62-64).
WsIsConnected(t) == t.client # 0 /\ t.client \in t.open

\* send (part_008 54-60).
WsSendTo(t) == IF WsIsConnected(t) THEN [t EXCEPT !.sentTo = t.client] ELSE t

\* stop (recovery.ts 70-74).
EngineStop(w) ==
    ClearRecoveryTimer([w EXCEPT !.engine.heartbeatCheckTimer = FALSE,
                                 !.engine.sourceRefreshTimer = FALSE])

\* ------------------------------------------------------------------ actions
AwaitKinds == {RefreshSource, ToggleVisibility, CriticalAlert}

World(ioOk) ==
    [config |-> config, engine |-> engine, store |-> store, file |-> file,
     client |-> client, out |-> <<>>, micro |-> <<>>, esc |-> esc, starts |-> starts,
     tmp |-> tmp, proc |-> proc, latest |-> latest, ioOk |-> ioOk]

WithinBounds(w) ==
    /\ w.engine.stalledHeartbeats <= MaxStalled
    /\ w.engine.nonPlayingHeartbeats <= MaxNonPlaying
    /\ w.engine.consecutivePausedHeartbeats <= MaxPaused
    /\ w.engine.lowQualityHeartbeats <= QualityThreshold
    /\ w.engine.retryTimers <= MaxRetryTimers
    /\ \A k \in AwaitKinds : w.engine.awaiting[k] <= MaxInflight
    /\ w.starts <= MaxStarts

\* The permanent-skip set of the specification.
PermanentSkipCodes == {100, 101, 150}

IsLoadPlaylist(o) == o.type = "loadPlaylist"

NoRun == [errors |-> 0, clean |-> 0]

\* One more error in a run of n; a complete run is followed by a new one.
OneMore(n) == IF n >= MaxConsecutiveErrors THEN 1 ELSE n + 1

\* The runs of non-skip errors after event e.  errors counts the errors
\* received in a row since the last PLAYING stateChange, permanent-skip error
\* or complete run; clean counts those since the last of these or playlist
\* advance.
TrackRun(e, w) ==
    IF e.kind = "error"
    THEN IF e.msg.errorCode \in PermanentSkipCodes THEN NoRun
         ELSE [errors |-> OneMore(run.errors), clean |-> OneMore(run.clean)]
    ELSE IF e.kind = "stateChange"
    THEN IF e.msg.playerState = PLAYING THEN NoRun
         ELSE IF \E i \in 1..Len(w.out) : IsLoadPlaylist(w.out[i])
         THEN [run EXCEPT !.clean = 0]
         ELSE run
    ELSE run

\* The handler has returned: its microtasks run, then the next event is taken.
Commit(w0, e) ==
    LET w == RunMicrotasks(w0)
    IN /\ WithinBounds(w)
       /\ engine' = w.engine
       /\ store' = w.store
       /\ file' = w.file
       /\ client' = w.client
       /\ out' = w.out
       /\ esc' = w.esc
       /\ starts' = w.starts
       /\ run' = TrackRun(e, w)
       /\ tmp' = w.tmp
       /\ proc' = w.proc
       /\ latest' = w.latest
       /\ ev' = e
       /\ UNCHANGED <<config, notifier, obs, ws>>

\* The handler wrote the state file, so the outcome of the I/O matters.
Flushes(w) == \E i \in 1..Len(w.out) : w.out[i] = [type |-> "flush"]

InitEngine ==
    [heartbeatCheckTimer |-> TRUE, sourceRefreshTimer |-> TRUE,
     consecutiveErrors |-> 0, heartbeatOverdue |-> FALSE, recoveryStep |-> None,
     recoveryTimer |-> NoTimer, leaked |-> {}, totalVideos |-> 0,
     consecutivePausedHeartbeats |-> 0, lastProgressTime |-> 0, stalledHeartbeats |-> 0,
     lowQualityHeartbeats |-> 0, nonPlayingHeartbeats |-> 0,
     awaiting |-> [k \in AwaitKinds |-> 0], retryTimers |-> 0]

\* The state after construction and recovery.start(), with the given engine
\* fields.
InitRecoveryOf(configs, files, anEngine) ==
    /\ config \in configs
    /\ file \in files
    /\ store = [current |-> Load(file), debounceTimer |-> FALSE]
    /\ engine = anEngine
    /\ client = FALSE
    /\ ev = [kind |-> "init"]
    /\ out = <<>>
    /\ esc = <<>>
    /\ starts = 0
    /\ run = NoRun
    /\ tmp = Missing
    /\ proc = "idle"
    /\ latest = Load(file)

\* After main() has built the components and called recovery.start(), for a
\* config and a state file drawn from the given sets.
InitRecovery(configs, files) == InitRecoveryOf(configs, files, InitEngine)

\* The same with a notifier without webhook and a host client that is not
\* configured, neither of which takes a step.
InitWith(configs, files) ==
    /\ InitRecovery(configs, files)
    /\ notifier = InitNotifier([webhookUrl |-> "", rolePing |-> ""])
    /\ obs = InitObs([obsAutoStream |-> FALSE, obsAutoRestart |-> FALSE,
                    obsPathFound |-> FALSE])
    /\ ws = InitWs

\* PlayerWebSocket 'connection': the new socket becomes the client, onConnect runs.
PlayerConnect ==
    Commit(OnPlayerConnect([World(TRUE) EXCEPT !.client = TRUE]), [kind |-> "connect"])

\* PlayerWebSocket 'close' of the current client; onPlayerDisconnect only logs.
PlayerDisconnect ==
    /\ client
    /\ Commit([World(TRUE) EXCEPT !.client = FALSE], [kind |-> "disconnect"])

Heartbeat(msgs) ==
    /\ client
    /\ \E msg \in msgs :
         Commit(HandleHeartbeat(World(TRUE), msg),
                [kind |-> "heartbeat", playerState |-> msg.playerState,
                 currentTime |-> msg.currentTime, from |-> engine.recoveryStep,
                 stalled |-> engine.stalledHeartbeats >= STALL_THRESHOLD])

StateChange ==
    /\ client
    /\ \E msg \in [videoIndex : 0..(MaxVideos - 1), videoId : {"v"},
                    playerState : ChangeStates],
          ioOk \in BOOLEAN :
         /\ ioOk \/ Flushes(HandleStateChange(World(ioOk), msg))
         /\ Commit(HandleStateChange(World(ioOk), msg),
                   [kind |-> "stateChange", msg |-> msg, ioOk |-> ioOk])

PlaylistLoaded ==
    /\ client
    /\ \E msg \in [totalVideos : 0..MaxVideos] :
         Commit(HandlePlaylistLoaded(World(TRUE), msg), [kind |-> "playlistLoaded", msg |-> msg])

PlaybackError ==
    /\ client
    /\ \E msg \in [errorCode : ErrorCodes, videoIndex : 0..(MaxVideos - 1), videoId : {"v"}],
          ioOk \in BOOLEAN :
         /\ ioOk \/ Flushes(HandlePlaybackError(World(ioOk), msg))
         /\ Commit(HandlePlaybackError(World(ioOk), msg),
                   [kind |-> "error", msg |-> msg, ioOk |-> ioOk])

\* The retry timeout armed by handlePlaybackError fires (recovery.ts 293-295).
RetryTimerFire ==
    /\ engine.retryTimers > 0
    /\ Commit(WsSend([World(TRUE) EXCEPT !.engine.retryTimers = @ - 1],
                     [type |-> "retryCurrent"]),
              [kind |-> "retryTimer"])

\* Enough time passes without a heartbeat for it to be overdue.
TimePasses ==
    /\ ~engine.heartbeatOverdue
    /\ Commit([World(TRUE) EXCEPT !.engine.heartbeatOverdue = TRUE], [kind |-> "time"])

\* The 5 s heartbeat monitor tick that starts recovery (recovery.ts 334-343).
HeartbeatCheck ==
    /\ engine.heartbeatCheckTimer
    /\ client
    /\ engine.heartbeatOverdue
    /\ engine.recoveryStep = None
    /\ Commit(StartRecoverySequence(World(TRUE)), [kind |-> "heartbeatCheck"])

\* The periodic maintenance refresh (recovery.ts 360-366).
SourceRefreshTick ==
    /\ engine.sourceRefreshTimer
    /\ engine.recoveryStep = None
    /\ client
    /\ Commit(Emit(World(TRUE), [type |-> "refreshBrowserSource"]), [kind |-> "sourceRefresh"])

\* The timer held in this.recoveryTimer fires.  The 60 s restart timer was
\* armed after every timer it displaced, each of at most 15 s, so it fires last.
RecoveryTimerFire ==
    /\ engine.recoveryTimer # NoTimer
    /\ engine.recoveryTimer.next = "restart" => engine.leaked = {}
    /\ Commit(RecoveryTimerCallback(ClearRecoveryTimer(World(TRUE)), engine.recoveryTimer),
              [kind |-> "recoveryTimer", timer |-> engine.recoveryTimer])

\* A timer that this.recoveryTimer no longer refers to fires.
LeakedTimerFire ==
    \E t \in engine.leaked :
        Commit(RecoveryTimerCallback([World(TRUE) EXCEPT !.engine.leaked = @ \ {t}], t),
               [kind |-> "leakedTimer", timer |-> t])

\* An awaited host call (or the critical notification) of a step returns.
HostCallReturns ==
    \E step \in AwaitKinds, ok \in BOOLEAN :
        /\ engine.awaiting[step] > 0
        /\ Commit(ExecuteStepResume(World(TRUE), step),
                  [kind |-> "callReturn", step |-> step, ok |-> ok])

\* ----------------------------------------------------- escalation: Spec
\* The player's heartbeats, the clock and the host's answers drive the
\* detectors and the escalation; the playlist is not touched.
EscHeartbeats ==
    [videoIndex : {1}, videoId : {"v"}, playerState : {PLAYING, PAUSED, BUFFERING},
     currentTime : Times, playbackQuality : {"", "medium"}]

Init ==
    InitWith([nPlaylists : {1}, qualityRecoveryEnabled : BOOLEAN],
             {ToJson([playlistIndex |-> 0, videoIndex |-> 1, videoId |-> "abc",
                      currentTime |-> 178])})

Next ==
    \/ PlayerConnect
    \/ PlayerDisconnect
    \/ Heartbeat(EscHeartbeats)
    \/ TimePasses
    \/ HeartbeatCheck
    \/ SourceRefreshTick
    \/ RecoveryTimerFire
    \/ LeakedTimerFire
    \/ HostCallReturns

Spec == Init /\ [][Next]_vars

IsPrefix(s, t) == Len(s) <= Len(t) /\ \A i \in 1..Len(s) : s[i] = t[i]

Sent(w, o) == \E i \in 1..Len(w.out) : w.out[i] = o

EscalationOrder == <<RetryCurrent, RefreshSource, ToggleVisibility, CriticalAlert>>

\* C1: once recovery has started from None and has not been reset, the steps
\* the engine performs are retryCurrent, RefreshBrowserSource,
\* ToggleBrowserSource, notifyCritical, in this order and with none skipped.
C1_EscalationInOrder == IsPrefix(esc, EscalationOrder)

\* Three consecutive heartbeats m, each handled to completion.
ThreeHeartbeats(w, m) ==
    RunMicrotasks(HandleHeartbeat(
        RunMicrotasks(HandleHeartbeat(
            RunMicrotasks(HandleHeartbeat(w, m)), m)), m))

PlayingAt(t) == {m \in EscHeartbeats : m.playerState = PLAYING /\ m.currentTime = t}

\* The heartbeat's position is less than 1 s away from the last progress.
WithinASecond(m) == Abs(m.currentTime - engine.lastProgressTime) < StallEpsilon

EntersRetryCurrent(w) ==
    /\ w.engine.recoveryStep = RetryCurrent
    /\ Sent(w, [type |-> "retryCurrent"])

\* C2 as stated: from every reachable state with step None and
\* stalledHeartbeats = 0, three consecutive PLAYING heartbeats with the same
\* currentTime > 0 put the engine in RetryCurrent, retryCurrent sent.
C2_ThreeConstantHeartbeats ==
    (client /\ engine.recoveryStep = None /\ engine.stalledHeartbeats = 0)
        => \A t \in Times \ {0} : \A m \in PlayingAt(t) :
               EntersRetryCurrent(ThreeHeartbeats(World(TRUE), m))

\* C2 amended: the same, when the constant currentTime is within 1 s of the
\* position of the last progress (lastProgressTime), so that the first of the
\* three heartbeats already counts as stalled.
C2_ThreeStalledHeartbeats ==
    (client /\ engine.recoveryStep = None /\ engine.stalledHeartbeats = 0)
        => \A t \in Times \ {0} : \A m \in PlayingAt(t) :
               WithinASecond(m)
                   => EntersRetryCurrent(ThreeHeartbeats(World(TRUE), m))

\* The third stalled heartbeat has started recovery.
C2_Witness ==
    /\ ev.kind = "heartbeat" /\ ev.playerState = PLAYING /\ ev.from = None
    /\ engine.stalledHeartbeats = STALL_THRESHOLD
    /\ engine.recoveryStep = RetryCurrent
    /\ out = <<[type |-> "notifyRecovery", step |-> "stall"],
               [type |-> "notifyRecovery", step |-> RetryCurrent],
               [type |-> "retryCurrent"]>>

\* The engine is in RetryCurrent after a stall detected at 17.0.
StalledAt170 ==
    /\ client
    /\ engine.recoveryStep = RetryCurrent
    /\ engine.stalledHeartbeats >= STALL_THRESHOLD
    /\ engine.lastProgressTime = 170
    /\ store.current.currentTime = 170

ResumeNote == [type |-> "notifyResume", videoIndex |-> store.current.videoIndex,
               videoId |-> store.current.videoId]

\* The heartbeat has reset recovery: the pending transition is cancelled, the
\* step is None and notifyResume carries the persisted videoIndex and videoId.
ResetByHeartbeat(m) ==
    LET w == RunMicrotasks(HandleHeartbeat(World(TRUE), m))
    IN /\ w.out # <<>> /\ w.out[1] = ResumeNote
       /\ ~Sent(w, [type |-> "refreshBrowserSource"])
       /\ \/ w.engine.recoveryStep = None /\ w.engine.recoveryTimer = NoTimer
          \/ Sent(w, [type |-> "notifyRecovery", step |-> "lowQuality"])

\* C3 as stated: in RetryCurrent after a stall at 17.0, the next PLAYING
\* heartbeat at 17.8 cancels the RefreshSource transition, sets the step to
\* None and emits notifyResume with the persisted videoIndex and videoId.
C3_ResumeAt178 ==
    StalledAt170 =>
        \A m \in PlayingAt(178) :
            LET w == RunMicrotasks(HandleHeartbeat(World(TRUE), m))
            IN /\ w.engine.recoveryStep = None /\ w.engine.recoveryTimer = NoTimer
               /\ Sent(w, ResumeNote)

\* C3 amended: in RetryCurrent after a stall, the next PLAYING heartbeat whose
\* currentTime is at least 1 s away from the stalled position (19.0 after
\* 17.0) cancels the RefreshSource transition, emits notifyResume with the
\* persisted videoIndex and videoId and sets the step to None, unless the
\* low-quality detector starts a new recovery on that same heartbeat; a
\* heartbeat less than 1 s away (17.8) is one more stalled heartbeat and
\* leaves the step and the pending transition as they are.
C3_ResumeOnProgress ==
    (client /\ engine.recoveryStep = RetryCurrent
       /\ engine.stalledHeartbeats >= STALL_THRESHOLD)
        => \A t \in Times \ {0} : \A m \in PlayingAt(t) :
               IF WithinASecond(m)
               THEN LET w == RunMicrotasks(HandleHeartbeat(World(TRUE), m))
                    IN /\ w.engine.recoveryStep = RetryCurrent
                       /\ w.engine.recoveryTimer = engine.recoveryTimer
                       /\ ~Sent(w, ResumeNote)
               ELSE ResetByHeartbeat(m)

\* A heartbeat at 19.0 has just reset a RetryCurrent that followed a stall.
C3_Witness ==
    /\ ev.kind = "heartbeat" /\ ev.playerState = PLAYING /\ ev.currentTime = 190
    /\ ev.from = RetryCurrent /\ ev.stalled
    /\ engine.recoveryStep = None /\ engine.recoveryTimer = NoTimer
    /\ engine.stalledHeartbeats = 0 /\ engine.lastProgressTime = 190
    /\ out = <<[type |-> "notifyResume", videoIndex |-> 1, videoId |-> "v"]>>

\* ------------------------------------------------------- sequencer: SpecSeq
\* The player's connects, stateChange, playlistLoaded and error messages
\* drive the playlist sequencer and the error handling; no recovery runs.
LegacyDoc == <<<<"videoIndex", 1>>, <<"videoId", "abc">>, <<"currentTime", 178>>>>

SeqFiles ==
    {Missing, LegacyDoc}
        \cup {ToJson([playlistIndex |-> p, videoIndex |-> 1, videoId |-> "abc",
                      currentTime |-> 178]) : p \in 0..MaxSavedIndex}

InitSeq ==
    InitWith([nPlaylists : 1..MaxPlaylists, qualityRecoveryEnabled : {FALSE}], SeqFiles)

NextSeq ==
    \/ PlayerConnect
    \/ PlayerDisconnect
    \/ StateChange
    \/ PlaylistLoaded
    \/ PlaybackError
    \/ RetryTimerFire

SpecSeq == InitSeq /\ [][NextSeq]_vars

OfType(seq, t) == LET Test(o) == o.type = t IN SelectSeq(seq, Test)

HasType(seq, t) == OfType(seq, t) # <<>>

\* The loadPlaylist a connect is to send for the saved state.
ExpectedLoad ==
    [type |-> "loadPlaylist",
     playlistId |-> IF store.current.playlistIndex >= config.nPlaylists
                    THEN PlaylistIds[1]
                    ELSE PlaylistIds[store.current.playlistIndex + 1],
     index |-> store.current.videoIndex,
     loop |-> (config.nPlaylists = 1),
     startTime |-> store.current.currentTime]

PermanentError == ev'.kind = "error" /\ ev'.msg.errorCode \in PermanentSkipCodes

\* The error message just handled has a code outside the permanent-skip set.
NonSkipError == ev'.kind = "error" /\ ev'.msg.errorCode \notin PermanentSkipCodes

\* The failing video is the last one of the loaded playlist.
OnLastVideo == engine.totalVideos > 0 /\ ev'.msg.videoIndex + 1 >= engine.totalVideos

NextPlaylistLoad ==
    [type |-> "loadPlaylist",
     playlistId |-> PlaylistIds[((store.current.playlistIndex + 1) % config.nPlaylists) + 1],
     index |-> 0,
     loop |-> (config.nPlaylists = 1)]

SkipToNext ==
    [type |-> "skip",
     index |-> IF engine.totalVideos > 0
               THEN (ev'.msg.videoIndex + 1) % engine.totalVideos
               ELSE ev'.msg.videoIndex + 1]

\* The step skipped the failing video or, on the last video, advanced the playlist.
SkipsOrAdvances ==
    IF OnLastVideo
    THEN OfType(out', "loadPlaylist") = <<NextPlaylistLoad>> /\ ~HasType(out', "skip")
    ELSE OfType(out', "skip") = <<SkipToNext>> /\ ~HasType(out', "loadPlaylist")

\* C5 as stated: an error whose code is in {100, 101, 150} causes a skip
\* message and does not increment consecutiveErrors: no notifyError is
\* emitted and no retryCurrent is scheduled.
C5_PermanentErrorSkips ==
    [][PermanentError =>
          /\ HasType(out', "skip")
          /\ ~HasType(out', "notifyError")
          /\ engine'.consecutiveErrors <= engine.consecutiveErrors
          /\ engine'.retryTimers = engine.retryTimers]_vars

\* C5 amended: such an error causes a skip message or, when the failing video
\* is the last of the loaded playlist, a loadPlaylist for the next playlist
\* at index 0 instead; either way consecutiveErrors is 0 afterwards, no
\* notifyError is emitted and no retryCurrent is scheduled.
C5_PermanentErrorSkipsOrAdvances ==
    [][PermanentError =>
          /\ SkipsOrAdvances
          /\ ~HasType(out', "notifyError")
          /\ engine'.consecutiveErrors = 0
          /\ engine'.retryTimers = engine.retryTimers]_vars

\* A permanent-skip error has just been answered with a skip.
C5_Witness ==
    /\ ev.kind = "error" /\ ev.msg.errorCode \in PermanentSkipCodes
    /\ engine.consecutiveErrors = 0
    /\ out = <<[type |-> "notifySkip", videoIndex |-> ev.msg.videoIndex,
                videoId |-> ev.msg.videoId],
               [type |-> "skip", index |-> ev.msg.videoIndex + 1]>>

ErrorNote(attempt) ==
    [type |-> "notifyError", videoIndex |-> ev'.msg.videoIndex, videoId |-> ev'.msg.videoId,
     errorCode |-> ev'.msg.errorCode, attempt |-> attempt]

\* C6 as stated: maxConsecutiveErrors errors with codes outside the
\* permanent-skip set in a row, no PLAYING stateChange in between, cause
\* exactly one skip, on the last of them, and leave consecutiveErrors at 0;
\* each earlier one emits notifyError and schedules one retryCurrent.
C6_RunOfErrorsSkipsOnce ==
    [][NonSkipError =>
          IF run'.errors = MaxConsecutiveErrors
          THEN /\ Len(OfType(out', "skip")) = 1
               /\ engine'.consecutiveErrors = 0
          ELSE /\ HasType(out', "notifyError")
               /\ ~HasType(out', "skip")
               /\ engine'.retryTimers = engine.retryTimers + 1]_vars

\* C6 amended: with neither a PLAYING stateChange nor a playlist advance in
\* between, every error of the run emits notifyError with its position in the
\* run; the last one causes exactly one skip or, when the failing video is
\* the last of the loaded playlist, one loadPlaylist for the next playlist,
\* leaves consecutiveErrors at 0 and schedules nothing; each earlier one
\* sends nothing and schedules one retryCurrent.
C6_RunOfErrors ==
    [][NonSkipError =>
          /\ OfType(out', "notifyError") = <<ErrorNote(run'.clean)>>
          /\ IF run'.clean = MaxConsecutiveErrors
             THEN /\ SkipsOrAdvances
                  /\ engine'.consecutiveErrors = 0
                  /\ engine'.retryTimers = engine.retryTimers
             ELSE /\ ~HasType(out', "skip") /\ ~HasType(out', "loadPlaylist")
                  /\ engine'.consecutiveErrors = run'.clean
                  /\ engine'.retryTimers = engine.retryTimers + 1]_vars

\* The last error of a run has been answered with a skip.
C6_Witness ==
    /\ ev.kind = "error" /\ ev.msg.errorCode \notin PermanentSkipCodes
    /\ run = [errors |-> MaxConsecutiveErrors, clean |-> MaxConsecutiveErrors]
    /\ engine.consecutiveErrors = 0
    /\ Len(out) = 3 /\ out[1].type = "notifyError" /\ out[2].type = "notifySkip"
    /\ out[3] = [type |-> "skip", index |-> ev.msg.videoIndex + 1]

\* C7: a permanent-skip error on the last video of the loaded playlist first
\* emits notifySkip for that video and then sends loadPlaylist for
\* playlists[(playlistIndex + 1) mod len] at index 0 with loop = (len = 1);
\* before that send the persisted state is videoIndex 0, videoId "",
\* currentTime 0 and the new playlistIndex, and it is flushed to disk.
C7_SkipNoteThenAdvance ==
    [][(PermanentError /\ engine.totalVideos > 0
          /\ ev'.msg.videoIndex = engine.totalVideos - 1) =>
          /\ \E i, j, k \in 1..Len(out') :
                /\ i < j /\ j < k
                /\ out'[i] = [type |-> "notifySkip", videoIndex |-> ev'.msg.videoIndex,
                              videoId |-> ev'.msg.videoId]
                /\ out'[j] = [type |-> "flush"]
                /\ out'[k] = NextPlaylistLoad
          /\ store'.current =
                [playlistIndex |-> (store.current.playlistIndex + 1) % config.nPlaylists,
                 videoIndex |-> 0, videoId |-> "", currentTime |-> 0]
          /\ ev'.ioOk => file' = ToJson(store'.current)]_vars

Partials ==
    {[videoIndex |-> 2, videoId |-> "v"],
     [currentTime |-> 190],
     [videoIndex |-> 0],
     [playlistIndex |-> 1, videoIndex |-> 0, videoId |-> "", currentTime |-> 0]}

\* The fields after one more update, as the specification has them.
Overwrite(fields, partial) ==
    [k \in DOMAIN fields |-> IF k \in DOMAIN partial THEN partial[k] ELSE fields[k]]

\* StateManager.update (state.ts 38-41).
Update ==
    /\ proc = "idle"
    /\ \E partial \in Partials :
         Commit([StateUpdate(World(TRUE), partial)
                   EXCEPT !.latest = Overwrite(latest, partial)],
                [kind |-> "update", partial |-> partial])

\* writeToDisk up to the rename, for caller "flush" or "timer": writeFileSync
\* returns, throws (the error is caught and logged), or the process dies in it.
BeginWrite(w, caller) ==
    LET text == ToJson(w.store.current)
    IN \/ Commit([WriteFileSync(w, text) EXCEPT !.proc = caller],
                 [kind |-> "write", caller |-> caller, ok |-> TRUE])
       \/ \E left \in Truncations(text) \cup {w.tmp} :
            Commit([WriteFileSync(w, left) EXCEPT !.store.debounceTimer = FALSE],
                   [kind |-> "write", caller |-> caller, ok |-> FALSE])
       \/ \E left \in Truncations(text) :
            Commit([WriteFileSync(w, left) EXCEPT !.proc = "down"], [kind |-> "crash"])

\* StateManager.flush (state.ts 44-50).
Flush ==
    /\ proc = "idle"
    /\ BeginWrite([World(TRUE) EXCEPT !.store.debounceTimer = FALSE], "flush")

\* The debounce timer fires (state.ts 54-57).
DebounceWrite ==
    /\ proc = "idle"
    /\ store.debounceTimer
    /\ BeginWrite(World(TRUE), "timer")

\* renameSync and the return of writeToDisk; the timer callback then clears
\* debounceTimer (state.ts 56).
Rename ==
    /\ proc \in {"flush", "timer"}
    /\ \E ok \in BOOLEAN :
         LET w == IF ok THEN RenameSync(World(TRUE)) ELSE World(TRUE)
         IN Commit([w EXCEPT !.proc = "idle", !.store.debounceTimer = FALSE],
                   [kind |-> "rename", caller |-> proc, ok |-> ok])

\* The process dies; its memory and its timers are gone.
Crash ==
    /\ proc # "down"
    /\ Commit([World(TRUE) EXCEPT !.proc = "down"], [kind |-> "crash"])

\* A new process constructs its StateManager, which loads the file.
Restart ==
    /\ proc = "down"
    /\ Commit([World(TRUE) EXCEPT !.store = [current |-> Load(file), debounceTimer |-> FALSE],
                                   !.latest = Load(file), !.proc = "idle"],
              [kind |-> "restart"])

InitStore ==
    InitWith([nPlaylists : {MaxPlaylists}, qualityRecoveryEnabled : {FALSE}], SeqFiles)

NextStore ==
    \/ Update
    \/ Flush
    \/ DebounceWrite
    \/ Rename
    \/ Crash
    \/ Restart

SpecStore == InitStore /\ [][NextStore]_vars

\* flush() has just returned.
FlushReturned ==
    /\ proc = "idle"
    /\ ev.kind \in {"write", "rename"}
    /\ ev.caller = "flush"

\* C9 as stated: after any sequence of updates followed by flush(), the file
\* read back has, for every field, the value most recently written by an
\* update (or the loaded value), and no debounce write is pending.
C9_FlushPersistsLatest ==
    FlushReturned => Load(file) = latest /\ ~store.debounceTimer

\* C9 amended: the same, provided the write of the temporary file and the
\* rename of that flush both succeed; when either fails, flush() returns
\* normally all the same and no debounce write is pending.
C9_FlushPersistsLatestIfWritten ==
    FlushReturned =>
        /\ ~store.debounceTimer
        /\ store.current = latest
        /\ (ev.kind = "rename" /\ ev.ok) => (file = ToJson(latest) /\ Load(file) = latest)

\* A flush after an update has replaced the file.
C9_Witness ==
    /\ FlushReturned /\ ev.kind = "rename" /\ ev.ok
    /\ latest = [playlistIndex |-> 1, videoIndex |-> 2, videoId |-> "v", currentTime |-> 190]
    /\ Load(file) = latest
    /\ ~store.debounceTimer

\* C10: at every point, also after a crash or an I/O failure between the
\* write of the temporary file and the rename, the file at <path> is a
\* complete document; only the rename changes it, to the complete document
\* that was written to the temporary file.
C10_FileNeverPartial ==
    [][/\ IsComplete(file) /\ IsComplete(file')
       /\ file' # file =>
             /\ ev'.kind = "rename" /\ ev'.ok
             /\ file' = tmp /\ file' = ToJson(store.current)]_vars

\* The process died between the write of the temporary file and the rename.
C10_Witness ==
    /\ proc = "down"
    /\ IsComplete(tmp) /\ tmp # Missing /\ tmp # file
    /\ IsComplete(file) /\ file # Missing

\* ------------------------------------------------------ notifier: SpecNotifier
\* The notifier alone: sends of every level at any time, the clock and the
\* debounce timer.
NotifierStep(n, e) ==
    /\ notifier' = [n EXCEPT !.last = e]
    /\ UNCHANGED <<engineVars, obs, ws>>

\* A call of send; the content is the number of the call.
Send ==
    /\ notifier.calls < MaxMessages
    /\ \E level \in Levels :
         NotifierStep([NotifierSend(notifier, notifier.calls + 1, level)
                         EXCEPT !.calls = @ + 1, !.lastSendAt = notifier.clock],
                      [kind |-> "send", content |-> notifier.calls + 1, level |-> level])

\* The debounce timeout armed by send expires (part_009 151).
FlushTimerFire ==
    /\ notifier.flushTimer
    /\ notifier.clock = notifier.dueAt
    /\ NotifierStep(NotifierFlush([notifier EXCEPT !.armed = @ - 1], "timer"),
                    [kind |-> "timer"])

\* A second passes; a due timer fires first, and an idle notifier is not
\* followed beyond one debounce delay after the last send.
Tick ==
    /\ IF notifier.flushTimer THEN notifier.clock < notifier.dueAt
       ELSE notifier.clock - notifier.lastSendAt < DEBOUNCE_MS
    /\ NotifierStep([notifier EXCEPT !.clock = @ + 1000], [kind |-> "tick"])

Webhooks == [webhookUrl : {"", "https://discord.example/hook"}, rolePing : {"", "42"}]

InitNotifierSpec ==
    /\ InitRecovery([nPlaylists : {1}, qualityRecoveryEnabled : {FALSE}], {Missing})
    /\ notifier \in {InitNotifier(d) : d \in Webhooks}
    /\ obs = InitObs([obsAutoStream |-> FALSE, obsAutoRestart |-> FALSE,
                    obsPathFound |-> FALSE])
    /\ ws = InitWs

NextNotifier ==
    \/ Send
    \/ FlushTimerFire
    \/ Tick

SpecNotifier == InitNotifierSpec /\ [][NextNotifier]_vars

\* The positions of the accepted messages and of the requests.
Accepted == 1..Len(notifier.accepted)
Requests == 1..Len(notifier.requests)

NonError(i) == notifier.accepted[i].level # "error"

\* Request r carries accepted message i.
Carries(r, i) ==
    \E k \in 1..Len(notifier.requests[r].body.description) :
        notifier.requests[r].body.description[k].content = notifier.accepted[i].content

\* Request r carries messages i and j, i before j.
CarriesInOrder(r, i, j) ==
    \E k, l \in 1..Len(notifier.requests[r].body.description) :
        /\ k < l
        /\ notifier.requests[r].body.description[k].content = notifier.accepted[i].content
        /\ notifier.requests[r].body.description[l].content = notifier.accepted[j].content

\* The colour of the higher of the levels of messages i and j.
ColourOfPair(i, j) ==
    IF "warn" \in {notifier.accepted[i].level, notifier.accepted[j].level}
    THEN 16776960 ELSE 3447003

\* The colour of the highest level among the messages of request r.
ColourOfRequest(r) ==
    LET levels == {notifier.accepted[i].level : i \in {a \in Accepted : Carries(r, a)}}
    IN IF "error" \in levels THEN 15158332
       ELSE IF "warn" \in levels THEN 16776960 ELSE 3447003

LessThanFiveSecondsApart(i, j) ==
    notifier.accepted[j].at - notifier.accepted[i].at < 5000

\* An error-level message was enqueued after message i and no more than 5 s
\* after it.
ErrorInWindow(i) ==
    \E k \in Accepted :
        /\ k > i
        /\ notifier.accepted[k].level = "error"
        /\ notifier.accepted[k].at - notifier.accepted[i].at <= 5000

\* C11 as stated: two non-error messages enqueued less than 5 s apart are
\* sent by one request, made when the debounce timer fires, that carries
\* both in enqueue order, has the colour of the higher of their levels and a
\* footer with "2 events".
C11_TwoMessagesOneRequest ==
    \A i, j \in Accepted :
        (i < j /\ NonError(i) /\ NonError(j) /\ LessThanFiveSecondsApart(i, j)) =>
            \A r \in Requests :
                (Carries(r, i) \/ Carries(r, j)) =>
                    /\ CarriesInOrder(r, i, j)
                    /\ notifier.requests[r].by = "timer"
                    /\ notifier.requests[r].body.color = ColourOfPair(i, j)
                    /\ notifier.requests[r].body.footerExtra = 2

\* C11 amended: two non-error messages enqueued less than 5 s apart, the
\* first into an empty queue and with no error-level message enqueued within
\* 5 s after the first, are sent by one request, made when the debounce
\* timer fires 5 s after the first enqueue and not before, that carries both
\* in enqueue order, has the colour of the highest level among all the
\* messages it carries and a footer with "n events", n being their number.
C11_TwoMessagesOneWindow ==
    \A i, j \in Accepted :
        (/\ i < j /\ NonError(i) /\ NonError(j) /\ LessThanFiveSecondsApart(i, j)
         /\ notifier.accepted[i].opens /\ ~ErrorInWindow(i)) =>
            /\ \A r \in Requests :
                 (Carries(r, i) \/ Carries(r, j)) =>
                    /\ CarriesInOrder(r, i, j)
                    /\ notifier.requests[r].by = "timer"
                    /\ notifier.requests[r].at = notifier.accepted[i].at + 5000
                    /\ notifier.requests[r].body.color = ColourOfRequest(r)
                    /\ notifier.requests[r].body.footerExtra =
                         Cardinality({a \in Accepted : Carries(r, a)})
                    /\ notifier.requests[r].body.footerExtra >= 2
            /\ Cardinality({r \in Requests : Carries(r, i) \/ Carries(r, j)}) <= 1
            /\ notifier.clock > notifier.accepted[i].at + 5000 =>
                 \E r \in Requests : Carries(r, i)

\* An info and a warn message enqueued 2 s apart went out in one request.
C11_Witness ==
    /\ Len(notifier.accepted) = 2
    /\ notifier.accepted[1].level = "info" /\ notifier.accepted[2].level = "warn"
    /\ notifier.accepted[2].at - notifier.accepted[1].at = 2000
    /\ Len(notifier.requests) = 1
    /\ notifier.requests[1].by = "timer"
    /\ notifier.requests[1].body.footerExtra = 2
    /\ notifier.requests[1].body.color = 16776960
    /\ notifier.queue = <<>>

\* No accepted message is carried by two requests.
NoMessageTwice(n) ==
    \A r1, r2 \in 1..Len(n.requests) :
        \A k1 \in 1..Len(n.requests[r1].body.description),
           k2 \in 1..Len(n.requests[r2].body.description) :
            n.requests[r1].body.description[k1].content
              = n.requests[r2].body.description[k2].content
            => r1 = r2 /\ k1 = k2

\* C12: the enqueue of an error-level message makes, in that step, exactly
\* one request, which carries the messages queued so far followed by the
\* error message; the debounce timer is cancelled and the queue is empty
\* afterwards, and no message is ever carried by a second request.
C12_ErrorFlushesImmediately ==
    [][(/\ notifier'.last.kind = "send" /\ notifier'.last.level = "error"
        /\ Enabled(notifier)) =>
          /\ Len(notifier'.requests) = Len(notifier.requests) + 1
          /\ [k \in 1..(Len(notifier.queue) + 1) |->
                notifier'.requests[Len(notifier'.requests)].body.description[k].content]
               = [k \in 1..(Len(notifier.queue) + 1) |->
                    IF k <= Len(notifier.queue) THEN notifier.queue[k].content
                    ELSE notifier'.last.content]
          /\ Len(notifier'.requests[Len(notifier'.requests)].body.description)
               = Len(notifier.queue) + 1
          /\ ~notifier'.flushTimer
          /\ notifier'.queue = <<>>
          /\ NoMessageTwice(notifier')]_vars

\* An error message took two queued messages along, and time went on past
\* the moment the cancelled timer was due.
C12_Witness ==
    /\ Len(notifier.accepted) = 3
    /\ notifier.accepted[3].level = "error"
    /\ Len(notifier.requests) = 1
    /\ notifier.requests[1].by = "error"
    /\ Len(notifier.requests[1].body.description) = 3
    /\ notifier.clock > notifier.dueAt
    /\ notifier.queue = <<>> /\ ~notifier.flushTimer

\* C13: with a role mention configured, the content of a request is the
\* role mention if the highest level among its messages is error, and
\* absent otherwise.
C13_RoleMentionIffError ==
    notifier.discord.rolePing # "" =>
        \A r \in Requests :
            (notifier.requests[r].body.content = notifier.discord.rolePing)
              <=> (\E a \in Accepted : Carries(r, a) /\ notifier.accepted[a].level = "error")

\* One request went out with the role mention and one without it.
C13_Witness ==
    /\ notifier.discord.rolePing = "42"
    /\ \E r \in Requests : notifier.requests[r].body.content = "42"
    /\ \E r \in Requests : /\ notifier.requests[r].body.content = ""
                           /\ notifier.requests[r].body.title = "warn"

\* ------------------------------------------------------- host client: SpecObs
\* The host client between obs.connect() of main() and shutdown: connect
\* attempts and their outcomes, the host's stream starting, stopping and
\* failing to start, the player's health, and the answers to the calls of
\* the restart timer.
ObsNow == [obs EXCEPT !.fired = <<>>, !.calls = <<>>]

IsStreamEvent(e, outputState) == e.kind = "streamState" /\ e.outputState = outputState

\* Event e found the stream already active, as the host's answer to the
\* restart timer's GetStreamStatus.
FoundActive(e) == e.kind = "statusReturn" /\ e.result = "active"

\* Event e reaches scheduleStreamRestart while no restart timer is pending.
ReachesSchedule(e) ==
    /\ ~obs.streamRestartTimer
    /\ \/ IsStreamEvent(e, STOPPED) /\ obs.config.obsAutoStream
       \/ e.kind = "statusReturn" /\ e.result = "throws"
       \/ e.kind = "startReturn" /\ ~e.ok

\* The step arms the restart timer.
Arms(o) == ~obs.streamRestartTimer /\ o.streamRestartTimer

ObsStep(o, e) ==
    /\ Len(o.delays) <= MaxReconnects
    /\ Len(o.statusCalls) <= MaxRestartCalls
    /\ o.startCalls <= MaxRestartCalls
    /\ o.failedReconnects <= MaxReconnects
    /\ o.processChecks <= MaxProcessChecks
    /\ obs' = [o EXCEPT
                 !.last = e,
                 !.sinceStarted = IF IsStreamEvent(e, STARTED) THEN 0
                                  ELSE IF Arms(o)
                                  THEN Min(@ + 1, MAX_STREAM_RESTART_ATTEMPTS + 1)
                                  ELSE @,
                 !.sinceReset = IF IsStreamEvent(e, STARTED) \/ FoundActive(e) THEN 0
                                ELSE IF ReachesSchedule(e)
                                THEN (IF @ >= MAX_STREAM_RESTART_ATTEMPTS THEN 0 ELSE @ + 1)
                                ELSE @,
                 !.lastStreamEvent = IF IsStreamEvent(e, STARTED) \/ IsStreamEvent(e, STOPPED)
                                     THEN e.outputState ELSE @]
    /\ UNCHANGED <<engineVars, notifier, ws>>

\* obs.connect() resolves.
ConnectSucceeds ==
    /\ obs.connecting
    /\ ObsStep(OnConnected(ObsNow), [kind |-> "connected"])

\* obs.connect() rejects.
ConnectFails ==
    /\ obs.connecting
    /\ ObsStep(OnConnectFailed(ObsNow), [kind |-> "connectFailed"])

\* The socket to the host closes.
ConnectionClosed ==
    /\ obs.connected
    /\ ObsStep(OnConnectionClosed(ObsNow), [kind |-> "connectionClosed"])

ReconnectTimerFire ==
    /\ obs.reconnectTimer
    /\ ObsStep(ReconnectTimerCallback(ObsNow), [kind |-> "reconnectTimer"])

\* The host delivers a StreamStateChanged event to a connected client.
Deliver(o, outputState) ==
    IF o.connected THEN HandleStreamStateChanged(o, outputState) ELSE o

\* The stream output starts: STARTING, then STARTED.
HostStreamStarts ==
    /\ ~obs.hostStream
    /\ ObsStep(Deliver(Deliver([ObsNow EXCEPT !.hostStream = TRUE], STARTING), STARTED),
               IF obs.connected THEN [kind |-> "streamState", outputState |-> STARTED]
               ELSE [kind |-> "host"])

\* The stream output stops or drops.
HostStreamStops ==
    /\ obs.hostStream
    /\ ObsStep(Deliver([ObsNow EXCEPT !.hostStream = FALSE], STOPPED),
               IF obs.connected THEN [kind |-> "streamState", outputState |-> STOPPED]
               ELSE [kind |-> "host"])

\* A start of the stream output fails: STOPPED without a STARTED before it.
HostStartFails ==
    /\ ~obs.hostStream
    /\ obs.connected
    /\ ObsStep(Deliver(ObsNow, STOPPED), [kind |-> "streamState", outputState |-> STOPPED])

\* The value of the player-health predicate changes (index.ts 175-180).
PlayerHealthChanges ==
    ObsStep([ObsNow EXCEPT !.playerHealthy = ~@], [kind |-> "health"])

StreamRestartTimerFire ==
    /\ obs.streamRestartTimer
    /\ ObsStep(StreamRestartTimerCallback(ObsNow),
               [kind |-> "streamRestartTimer", gate |-> Gate(obs)])

\* GetStreamStatus is answered with the state of the stream output, or fails.
StreamStatusAnswered ==
    /\ obs.statusCalls # <<>>
    /\ \E result \in {"throws"} \cup (IF obs.connected
                                       THEN {IF obs.hostStream THEN "active" ELSE "inactive"}
                                       ELSE {}) :
         ObsStep(StreamStatusReturns(ObsNow, result),
                 [kind |-> "statusReturn", result |-> result, gate |-> Head(obs.statusCalls)])

\* StartStream is answered or fails.
StartStreamAnswered ==
    /\ obs.startCalls > 0
    /\ \E ok \in (IF obs.connected THEN BOOLEAN ELSE {FALSE}) :
         ObsStep(StartStreamReturns(ObsNow, ok), [kind |-> "startReturn", ok |-> ok])

\* main() has wired the callbacks and awaits obs.connect() (index.ts 140-186).
InitObsSpec ==
    /\ InitRecovery([nPlaylists : {1}, qualityRecoveryEnabled : {FALSE}], {Missing})
    /\ notifier = InitNotifier([webhookUrl |-> "", rolePing |-> ""])
    /\ obs \in {[InitObs([obsAutoStream |-> a, obsAutoRestart |-> FALSE,
                            obsPathFound |-> FALSE]) EXCEPT !.connecting = TRUE, !.hostStream = h]
                  : a \in BOOLEAN, h \in BOOLEAN}
    /\ ws = InitWs

NextObs ==
    \/ ConnectSucceeds
    \/ ConnectFails
    \/ ConnectionClosed
    \/ ReconnectTimerFire
    \/ HostStreamStarts
    \/ HostStreamStops
    \/ HostStartFails
    \/ PlayerHealthChanges
    \/ StreamRestartTimerFire
    \/ StreamStatusAnswered
    \/ StartStreamAnswered

SpecObs == InitObsSpec /\ [][NextObs]_vars

\* 5 s, 7.5 s, 11.25 s, ... capped at 30 s, in half milliseconds.
ReconnectProgression == <<10000, 15000, 22500, 33750, 50625, 60000, 60000, 60000>>

\* C14: the delays of the reconnect timers armed since the last successful
\* connect are 5 s, 7.5 s, 11.25 s, ..., each 1.5 times the one before and
\* none above 30 s, so that the first one after a successful connect is 5 s;
\* at most one reconnect timer is pending.
C14_ReconnectBackoff ==
    /\ IsPrefix(obs.delays, ReconnectProgression)
    /\ \A k \in 1..Len(obs.delays) : obs.delays[k] <= 60000
    /\ \A k \in 1..(Len(obs.delays) - 1) :
         obs.delays[k + 1] * 2 = obs.delays[k] * 3 \/ obs.delays[k + 1] = 60000
    /\ obs.pendingReconnects <= 1
    /\ obs.reconnectTimer <=> obs.pendingReconnects = 1

\* Seven reconnects in a row since the host went away; the seventh is pending.
C14_Witness ==
    /\ Len(obs.delays) = 7
    /\ obs.delays[5] = 50625
    /\ obs.delays[7] = 60000
    /\ obs.reconnectTimer
    /\ ~obs.connected

\* The delays of the first to fifth restart, as the specification lists them.
RestartDelayTable == <<10000, 30000, 60000, 60000, 60000>>

\* The step from obs to obs' arms the restart timer.
ArmsRestart == ~obs.streamRestartTimer /\ obs'.streamRestartTimer

\* The step handles a STOPPED event while a restart is scheduled.
StoppedWhileScheduled ==
    /\ obs'.last.kind = "streamState" /\ obs'.last.outputState = STOPPED
    /\ obs.streamRestartTimer

\* Nothing is scheduled and nothing is reported.
NothingScheduled ==
    /\ obs'.fired = <<>>
    /\ obs'.streamRestartTimer /\ obs'.streamRestartTimerDelay = obs.streamRestartTimerDelay
    /\ obs'.streamRestartAttempts = obs.streamRestartAttempts

\* C15 as stated: with obsAutoStream on, the k-th restart scheduled since the
\* last STARTED event, k = 1..5, has the k-th delay of the table and reports
\* onStreamDrop(k, 5) when it is scheduled; a STOPPED event that arrives
\* while a restart is scheduled schedules nothing and reports nothing.
C15_RestartBackoffSinceStarted ==
    [][obs.config.obsAutoStream =>
         /\ (ArmsRestart /\ obs'.sinceStarted <= 5) =>
               /\ obs'.streamRestartTimerDelay = RestartDelayTable[obs'.sinceStarted]
               /\ obs'.fired = <<[name |-> "onStreamDrop", attempt |-> obs'.sinceStarted,
                                  maxAttempts |-> 5]>>
         /\ StoppedWhileScheduled => NothingScheduled]_vars

\* C15 amended: the same with k counted since the last STARTED event, the
\* last restart attempt that found the stream already active, or the last
\* time the attempts were exhausted, whichever came last.
C15_RestartBackoffSinceReset ==
    [][obs.config.obsAutoStream =>
         /\ ArmsRestart =>
               /\ obs'.sinceReset \in 1..5
               /\ obs'.streamRestartTimerDelay = RestartDelayTable[obs'.sinceReset]
               /\ obs'.fired = <<[name |-> "onStreamDrop", attempt |-> obs'.sinceReset,
                                  maxAttempts |-> 5]>>
         /\ StoppedWhileScheduled => NothingScheduled]_vars

\* The third restart in a row is scheduled, 60 s ahead.
C15_Witness ==
    /\ obs.config.obsAutoStream
    /\ obs.sinceStarted = 3 /\ obs.sinceReset = 3
    /\ obs.streamRestartTimer /\ obs.streamRestartTimerDelay = 60000
    /\ obs.fired = <<[name |-> "onStreamDrop", attempt |-> 3, maxAttempts |-> 5]>>

\* C16: a STARTED event sets streamRestartAttempts to 0 and cancels the
\* restart timer, and emits onStreamRestart(n) exactly when the counter n
\* was above 0; no restart is scheduled between a STARTED event and the next
\* STOPPED event.
C16_StartedResets ==
    [][/\ (obs'.last.kind = "streamState" /\ obs'.last.outputState = STARTED) =>
            /\ obs'.streamRestartAttempts = 0
            /\ ~obs'.streamRestartTimer
            /\ obs'.fired = IF obs.streamRestartAttempts > 0
                            THEN <<[name |-> "onStreamRestart",
                                    attempts |-> obs.streamRestartAttempts]>>
                            ELSE <<>>
       /\ ArmsRestart => obs'.lastStreamEvent # STARTED]_vars

\* The restart timer callback or one of its calls reaches
\* scheduleStreamRestart, or a STOPPED event does, with no timer pending.
WouldSchedule ==
    /\ ~obs.streamRestartTimer
    /\ \/ obs'.last.kind = "streamState" /\ obs'.last.outputState = STOPPED
          /\ obs.config.obsAutoStream
       \/ obs'.last.kind = "statusReturn" /\ obs'.last.result = "throws"
       \/ obs'.last.kind = "startReturn" /\ ~obs'.last.ok

\* C17: streamRestartAttempts is in 0..5; when a restart would be scheduled
\* after 5 attempts, onStreamRestartFailed is emitted once, no timer is set
\* and the counter is 0 again, and a restart scheduled from 0 is attempt 1
\* with the 10 s delay.
C17_AttemptsExhausted ==
    [][/\ obs.streamRestartAttempts \in 0..5 /\ obs'.streamRestartAttempts \in 0..5
       /\ (WouldSchedule /\ obs.streamRestartAttempts = 5) =>
            /\ obs'.fired = <<[name |-> "onStreamRestartFailed"]>>
            /\ ~obs'.streamRestartTimer
            /\ obs'.streamRestartAttempts = 0
       /\ (WouldSchedule /\ obs.streamRestartAttempts = 0) =>
            /\ obs'.fired = <<[name |-> "onStreamDrop", attempt |-> 1, maxAttempts |-> 5]>>
            /\ obs'.streamRestartTimer /\ obs'.streamRestartTimerDelay = 10000
            /\ obs'.streamRestartAttempts = 1]_vars

\* The attempts have just been exhausted: the failure is reported, nothing is
\* scheduled and the counter is 0.
C17_Witness ==
    /\ obs.fired = <<[name |-> "onStreamRestartFailed"]>>
    /\ obs.sinceStarted = 5
    /\ obs.streamRestartAttempts = 0
    /\ ~obs.streamRestartTimer

IssuesStartStream == \E i \in 1..Len(obs'.calls) : obs'.calls[i] = "StartStream"

\* C18: StartStream is issued by the restart timer only if, when the timer
\* fired, the client was connected, obsAutoStream was on and the player was
\* healthy, and the host then reported the stream as not active; a timer
\* that fires with one of the three false asks the host nothing.
C18_RestartGated ==
    [][/\ IssuesStartStream =>
            /\ obs'.last.kind = "statusReturn" /\ obs'.last.result = "inactive"
            /\ obs'.last.gate.connected /\ obs'.last.gate.obsAutoStream
            /\ obs'.last.gate.playerHealthy
            /\ ~obs.hostStream
       /\ (/\ obs'.last.kind = "streamRestartTimer"
           /\ ~(obs.connected /\ obs.config.obsAutoStream /\ obs.playerHealthy)) =>
            /\ obs'.calls = <<>>
            /\ obs'.statusCalls = obs.statusCalls
            /\ obs'.startCalls = obs.startCalls
            /\ ~obs'.streamRestartTimer]_vars

\* The timer fired with the player unhealthy and nothing was asked, after an
\* earlier attempt had issued StartStream.
C18_Witness ==
    /\ obs.last.kind = "streamRestartTimer"
    /\ ~obs.last.gate.playerHealthy /\ obs.last.gate.connected
    /\ obs.calls = <<>>
    /\ obs.streamRestartAttempts = 2
    /\ obs.startCalls = 0 /\ obs.statusCalls = <<>>

\* ----------------------------------------------------- player transport: SpecWs
\* The transport alone: players connect, send messages and close, in any
\* order, and the server sends.
WsNow == [ws EXCEPT !.fired = <<>>, !.sentTo = 0, !.closedByServer = {}]

WsStep(t, e) ==
    /\ ws' = [t EXCEPT !.last = e]
    /\ UNCHANGED <<engineVars, notifier, obs>>

\* A player connects to /ws.
WsConnection ==
    /\ ws.accepted < MaxSockets
    /\ WsStep(WsOnConnection(WsNow, ws.accepted + 1),
              [kind |-> "connection", socket |-> ws.accepted + 1])

\* A connected player sends a message.
WsMessage ==
    \E socket \in ws.open :
        WsStep(WsOnMessage(WsNow, socket), [kind |-> "message", socket |-> socket])

\* A player's socket closes.
WsClose ==
    \E socket \in ws.open :
        WsStep(WsOnClose(WsNow, socket), [kind |-> "close", socket |-> socket])

\* The server sends a message to the player.
WsServerSend == WsStep(WsSendTo(WsNow), [kind |-> "send"])

InitWsSpec ==
    /\ InitRecovery([nPlaylists : {1}, qualityRecoveryEnabled : {FALSE}], {Missing})
    /\ notifier = InitNotifier([webhookUrl |-> "", rolePing |-> ""])
    /\ obs = InitObs([obsAutoStream |-> FALSE, obsAutoRestart |-> FALSE,
                    obsPathFound |-> FALSE])
    /\ ws = InitWs

NextWs ==
    \/ WsConnection
    \/ WsMessage
    \/ WsClose
    \/ WsServerSend

SpecWs == InitWsSpec /\ [][NextWs]_vars

WsFired(name) == {i \in 1..Len(ws'.fired) : ws'.fired[i].name = name}

\* C19: at most one peer is live: a connection accepted while an earlier
\* client is open closes the earlier client, and only the newest client's
\* messages reach onMessage and only its close reaches onDisconnect.
C19_SinglePeer ==
    [][/\ Cardinality(ws'.open) <= 1
       /\ (ws'.last.kind = "connection" /\ ws.client \in ws.open) =>
             ws.client \in ws'.closedByServer /\ ws.client \notin ws'.open
       /\ \A i \in WsFired("onMessage") : ws'.fired[i].from = ws.accepted
       /\ \A i \in WsFired("onDisconnect") : ws'.fired[i].from = ws.accepted]_vars

\* --------------------------------------------------------- stop(): SpecStop
\* One engine instance up to and after stop() on a config reload: the new
\* instance takes over the transport's callbacks, so the player's messages
\* and connections reach this instance only while it runs; its timeouts and
\* the calls it awaits are still outstanding.
Running == engine.heartbeatCheckTimer

\* recovery.stop() (index.ts 118).
Stop ==
    /\ Running
    /\ Commit(EngineStop(World(TRUE)), [kind |-> "stop"])

StopConnect == Running /\ PlayerConnect
StopDisconnect == Running /\ PlayerDisconnect
StopPlaybackError == Running /\ PlaybackError
StopTimePasses == Running /\ TimePasses

InitStop ==
    InitWith([nPlaylists : {1}, qualityRecoveryEnabled : {FALSE}],
             {ToJson([playlistIndex |-> 0, videoIndex |-> 0, videoId |-> "abc",
                      currentTime |-> 178])})

NextStop ==
    \/ StopConnect
    \/ StopDisconnect
    \/ StopPlaybackError
    \/ StopTimePasses
    \/ HeartbeatCheck
    \/ SourceRefreshTick
    \/ RetryTimerFire
    \/ RecoveryTimerFire
    \/ LeakedTimerFire
    \/ HostCallReturns
    \/ Stop

SpecStop == InitStop /\ [][NextStop]_vars

\* What the engine sends, calls and notifies.
Outward ==
    {"retryCurrent", "loadPlaylist", "skip", "resume", "refreshBrowserSource",
     "toggleBrowserSource", "notifyRecovery", "notifyCritical", "notifyResume",
     "notifyError", "notifySkip"}

\* C20: after stop() the engine sends nothing to the player, calls the host
\* no more, notifies no more and arms no timer, also when stop() came while
\* a host call or notification of a step was awaited or while an error-retry
\* delay was pending.
C20_NothingAfterStop ==
    [][~Running =>
         /\ \A i \in 1..Len(out') : out'[i].type \notin Outward
         /\ engine'.recoveryTimer = NoTimer
         /\ engine'.retryTimers <= engine.retryTimers
         /\ \A k \in AwaitKinds : engine'.awaiting[k] <= engine.awaiting[k]]_vars

\* ------------------------------------------- host client: SpecObsDisconnect
\* The host client of SpecObs with disconnect(), which shutdown and
\* reloadConfig call on the instance at any moment (index.ts 90, 212), also
\* while obs.connect() or a call of the restart timer is awaited.  The
\* socket of a connected client is closed by disconnect(); its calls in
\* flight then fail.
Disconnect ==
    /\ ~obs.disconnectCalled
    /\ ObsStep([ObsDisconnect(ObsNow) EXCEPT !.disconnectCalled = TRUE],
               [kind |-> "disconnect"])

NextObsDisconnect ==
    \/ NextObs
    \/ Disconnect

SpecObsDisconnect == InitObsSpec /\ [][NextObsDisconnect]_vars

FiredNames == {obs.fired[i].name : i \in DOMAIN obs.fired}

\* C21: once disconnect() has been called on a client instance, no reconnect
\* timer and no stream-restart timer is armed, the client is not connected,
\* and no step fires onConnect or onDisconnect.
C21_QuietAfterDisconnect ==
    obs.disconnectCalled =>
        /\ ~obs.reconnectTimer
        /\ ~obs.streamRestartTimer
        /\ ~obs.connected
        /\ FiredNames \cap {"onConnect", "onDisconnect"} = {}

\* ------------------------------------------------ playlist: SpecPlaylist
\* The sequencer driven by a player that runs src/src/player/player.js.  The
\* player announces a loaded playlist with playlistLoaded only when it has
\* videos (player.js 249-255) and reports getPlaylistIndex() of that playlist
\* in every later message (76, 212, 266).  After advanceToNextPlaylist has
\* set totalVideos to 0, messages the player sent for the previous playlist
\* can still arrive until the playlistLoaded of the new one.
Reports(msg) == engine.totalVideos > 0 => msg.videoIndex < engine.totalVideos

PlaylistHeartbeats ==
    [videoIndex : 0..(MaxVideos - 1), videoId : {"v"}, playerState : {PLAYING},
     currentTime : {0}, playbackQuality : {""}]

PlayerHeartbeat == \E msg \in PlaylistHeartbeats : Reports(msg) /\ Heartbeat({msg})

PlayerStateChange == StateChange /\ Reports(ev'.msg)

PlayerPlaylistLoaded == PlaylistLoaded /\ ev'.msg.totalVideos > 0

PlayerPlaybackError == PlaybackError /\ Reports(ev'.msg)

InitPlaylist == InitSeq

NextPlaylist ==
    \/ PlayerConnect
    \/ PlayerDisconnect
    \/ PlayerHeartbeat
    \/ PlayerStateChange
    \/ PlayerPlaylistLoaded
    \/ PlayerPlaybackError
    \/ RetryTimerFire

SpecPlaylist == InitPlaylist /\ [][NextPlaylist]_vars

Status == GetStatus(World(TRUE))

\* The playlistLoaded just handled found the persisted videoIndex out of range.
LoadedOutOfRange ==
    /\ ev'.kind = "playlistLoaded"
    /\ ev'.msg.totalVideos > 0
    /\ store.current.videoIndex >= ev'.msg.totalVideos

EventToggles ==
    {[k \in EventKinds |-> k \notin off] :
        off \in {{}, EventKinds, {"error"}, {"critical"}, {"resume", "obsReconnect"}}}

EventWebhooks ==
    [webhookUrl : {"", "https://discord.example/hook"}, rolePing : {""},
     events : EventToggles]

\* A call of a typed notification; the content is the number of the call.
NotifyCall ==
    /\ notifier.calls < MaxMessages
    /\ \E kind \in EventKinds :
         NotifierStep([Notify(notifier, kind, notifier.calls + 1)
                         EXCEPT !.calls = @ + 1, !.lastSendAt = notifier.clock],
                      [kind |-> "notify", event |-> kind, content |-> notifier.calls + 1])

InitNotifierEvents ==
    /\ InitRecovery([nPlaylists : {1}, qualityRecoveryEnabled : {FALSE}], {Missing})
    /\ notifier \in {InitNotifier(d) : d \in EventWebhooks}
    /\ obs = InitObs([obsAutoStream |-> FALSE, obsAutoRestart |-> FALSE,
                    obsPathFound |-> FALSE])
    /\ ws = InitWs

NextNotifierEvents ==
    \/ NotifyCall
    \/ Send
    \/ FlushTimerFire
    \/ Tick

SpecNotifierEvents == InitNotifierEvents /\ [][NextNotifierEvents]_vars

\* The call just made is a typed notification whose toggle is off, or any
\* send of a notifier without webhook URL.
Suppressed ==
    \/ notifier'.last.kind = "notify" /\ ~notifier.discord.events[notifier'.last.event]
    \/ notifier'.last.kind \in {"notify", "send"} /\ ~Enabled(notifier)

\* Every message of every request was accepted into the queue.
OnlyAcceptedSent ==
    \A r \in Requests : \A i \in DOMAIN notifier.requests[r].body.description :
        \E a \in Accepted :
            notifier.accepted[a].content = notifier.requests[r].body.description[i].content

\* C23: a typed notification whose toggle is disabled, and any send while
\* the webhook URL is empty, leaves the queue and the debounce timer as they
\* were, makes no request and is never part of a later request; without a
\* webhook URL no request is ever made.
C23_DisabledLeavesNoTrace ==
    /\ [](OnlyAcceptedSent /\ (~Enabled(notifier) => notifier.requests = <<>>))
    /\ [][Suppressed =>
             /\ notifier'.queue = notifier.queue
             /\ notifier'.flushTimer = notifier.flushTimer
             /\ notifier'.dueAt = notifier.dueAt
             /\ notifier'.accepted = notifier.accepted
             /\ notifier'.requests = notifier.requests]_vars

\* A notification with its toggle off was called while a message was queued
\* and the debounce timer armed, and the timer has fired since.
C23_Witness ==
    /\ Enabled(notifier)
    /\ \E k \in EventKinds : ~notifier.discord.events[k]
    /\ notifier.calls = 2
    /\ Len(notifier.accepted) = 1
    /\ Len(notifier.requests) = 1
    /\ notifier.requests[1].by = "timer"
    /\ notifier.accepted[1].content = 1

\* ---------------------------------------------- notifier: SpecNotifierFetch
\* The notifier of SpecNotifier with the outcome of each request: the fetch
\* of a request settles at any time after the request was made.
Unsettled ==
    {r \in Requests : \A k \in DOMAIN notifier.settled : notifier.settled[k].request # r}

FetchSettles ==
    \E r \in Unsettled, outcome \in FetchOutcomes :
        NotifierStep(NotifierFetchSettled(notifier, r, outcome),
                     [kind |-> "fetch", request |-> r, outcome |-> outcome])

NextNotifierFetch ==
    \/ Send
    \/ FlushTimerFire
    \/ Tick
    \/ FetchSettles

InitNotifierFetch ==
    /\ InitRecovery([nPlaylists : {1}, qualityRecoveryEnabled : {FALSE}], {Missing})
    /\ notifier = InitNotifier([webhookUrl |-> "https://discord.example/hook", rolePing |-> ""])
    /\ obs = InitObs([obsAutoStream |-> FALSE, obsAutoRestart |-> FALSE,
                    obsPathFound |-> FALSE])
    /\ ws = InitWs

SpecNotifierFetch == InitNotifierFetch /\ [][NextNotifierFetch]_vars

\* How many places of the requests made so far hold accepted message i.
TimesSent(i) ==
    Cardinality({<<r, k>> \in Requests \X (1..MaxMessages) :
                    /\ k <= Len(notifier.requests[r].body.description)
                    /\ notifier.requests[r].body.description[k].content
                         = notifier.accepted[i].content})

\* How many places of the queue hold accepted message i.
TimesQueued(i) ==
    Cardinality({k \in DOMAIN notifier.queue :
                    notifier.queue[k].content = notifier.accepted[i].content})

FetchFailed == notifier'.last.kind = "fetch" /\ notifier'.last.outcome # "ok"

\* C24: every accepted message is either still queued, with the debounce
\* timer armed, or part of exactly one request, never both and never twice;
\* when the fetch of a request rejects or answers with a non-2xx status the
\* failure is logged, the queue, the timer and the requests stay as they
\* are (no re-queue, no retry) and nothing is thrown to the caller.
C24_SentOnceNoRetry ==
    /\ [](/\ \A i \in Accepted : TimesSent(i) + TimesQueued(i) = 1
          /\ notifier.queue # <<>> => notifier.flushTimer
          /\ \A k \in DOMAIN notifier.settled : ~notifier.settled[k].thrown)
    /\ [][FetchFailed =>
             /\ notifier'.queue = notifier.queue
             /\ notifier'.flushTimer = notifier.flushTimer
             /\ notifier'.requests = notifier.requests
             /\ notifier'.settled[Len(notifier'.settled)].logged]_vars

\* A batch of two messages failed with a non-2xx status, a later request
\* was rejected, and nothing is queued.
C24_Witness ==
    /\ Len(notifier.requests) = 2
    /\ Len(notifier.requests[1].body.description) = 2
    /\ Len(notifier.settled) = 2
    /\ notifier.settled[1] = [request |-> 1, outcome |-> "non2xx", logged |-> TRUE,
                              thrown |-> FALSE]
    /\ notifier.settled[2].outcome = "rejects"
    /\ notifier.queue = <<>>
    /\ ~notifier.flushTimer

\* ------------------------------------------------- recovery timers (Spec)
\* A timer armed by the escalation has just fired.
TimerFired == ev'.kind \in {"recoveryTimer", "leakedTimer"}

\* The step the fired timer was armed to execute.
StepOf(t) == IF t.next = "restart" THEN RetryCurrent ELSE t.next

\* What a scheduled transition is to do when it fires.
TransitionChecked ==
    IF engine.recoveryStep = None
    THEN out' = <<>> /\ engine'.recoveryStep = None
    ELSE IF StillBroken(World(TRUE))
    THEN /\ engine'.recoveryStep = StepOf(ev'.timer)
         /\ out'[1] = [type |-> "notifyRecovery", step |-> StepOf(ev'.timer)]
    ELSE /\ engine'.recoveryStep = None
         /\ out' = <<ResumeNote>>
         /\ engine'.recoveryTimer = NoTimer

\* C25: every scheduled recovery transition, the 60 s re-entry after
\* CriticalAlert included, does nothing when it fires with step None;
\* otherwise it executes its step if the heartbeat is overdue or
\* stalledHeartbeats >= 3 or nonPlayingHeartbeats >= 6, and else resets
\* recovery to None and emits notifyResume.
C25_TransitionsChecked == [][TimerFired => TransitionChecked]_vars

\* The same for the transitions armed by scheduleNextStep only.
ScheduledStepsChecked ==
    [][TimerFired /\ ev'.timer.next # "restart" => TransitionChecked]_vars

\* ------------------------------------------------ player connect (Spec)
\* What the connect handler leaves of a recovery in progress.
RecoveryCleared ==
    /\ engine.recoveryStep = None
    /\ engine.recoveryTimer = NoTimer
    /\ engine.nonPlayingHeartbeats = 0

\* C26: after the player-connect handler has run, step = None, no recovery
\* timer is pending, nonPlayingHeartbeats = 0 and stalledHeartbeats = 0.
C26_ConnectResetsDetectors ==
    ev.kind = "connect" => RecoveryCleared /\ engine.stalledHeartbeats = 0

\* The same without stalledHeartbeats.
ConnectClearsRecovery == ev.kind = "connect" => RecoveryCleared

\* The player has just connected while a recovery was in progress.
ReconnectMidRecovery == ev'.kind = "connect" /\ engine.recoveryStep # None

\* C27 as stated: when the player reconnects while step # None, the connect
\* handler resets step to None and cancels the recovery timer without
\* emitting notifyResume.
C27_ReconnectSilent ==
    [][ReconnectMidRecovery =>
         /\ engine'.recoveryStep = None
         /\ engine'.recoveryTimer = NoTimer
         /\ ~HasType(out', "notifyResume")]_vars

\* C27: when the player reconnects while step # None, the connect handler
\* resets step to None, cancels the recovery timer and emits one notifyResume
\* with the persisted videoIndex and videoId, before it sends loadPlaylist.
C27_ReconnectResumes ==
    [][ReconnectMidRecovery =>
         /\ engine'.recoveryStep = None
         /\ engine'.recoveryTimer = NoTimer
         /\ out' = <<ResumeNote, ExpectedLoad>>]_vars

\* A reconnect that interrupted the escalation at ToggleVisibility.
C27_Witness ==
    /\ ev.kind = "connect"
    /\ out = <<ResumeNote, ExpectedLoad>>
    /\ engine.recoveryStep = None
    /\ esc = <<>>
    /\ engine.awaiting[ToggleVisibility] > 0

\* --------------------------------------------------- escalation: SpecLoop
\* The escalation when nothing resets it: after the player has connected the
\* heartbeats stop for good.  The player may disconnect but does not come
\* back, since a connect resets recovery.  Timers that are armed fire and
\* awaited host calls and notifications return, hence the fairness; how
\* often recovery has started is not counted here.
LoopConnect == engine.recoveryStep = None /\ ~client /\ PlayerConnect

LoopTimerFire ==
    /\ engine.recoveryTimer # NoTimer
    /\ engine.recoveryTimer.next = "restart" => engine.leaked = {}
    /\ Commit([RecoveryTimerCallback(ClearRecoveryTimer(World(TRUE)), engine.recoveryTimer)
                 EXCEPT !.starts = starts],
              [kind |-> "recoveryTimer", timer |-> engine.recoveryTimer])

InitLoop ==
    InitWith([nPlaylists : 1..MaxPlaylists, qualityRecoveryEnabled : BOOLEAN], SeqFiles)

NextLoop ==
    \/ LoopConnect
    \/ PlayerDisconnect
    \/ TimePasses
    \/ HeartbeatCheck
    \/ LoopTimerFire
    \/ HostCallReturns

SpecLoop ==
    /\ InitLoop
    /\ [][NextLoop]_vars
    /\ WF_vars(LoopTimerFire)
    /\ WF_vars(HostCallReturns)

CriticalEmitted == HasType(out, "notifyCritical")

\* The 60 s timer has just fired and the engine is in RetryCurrent again.
ReenteredRetryCurrent ==
    /\ ev.kind = "recoveryTimer"
    /\ ev.timer = [next |-> "restart", delay |-> CriticalRetryDelayMs]
    /\ engine.recoveryStep = RetryCurrent
    /\ out = <<[type |-> "notifyRecovery", step |-> RetryCurrent],
               [type |-> "retryCurrent"]>> \/ ~client

\* C28: while the heartbeat stays overdue and nothing resets recovery, a
\* started escalation never ends: every CriticalAlert is followed by the
\* 60 s timer that re-enters RetryCurrent, every step leads to the next
\* notifyCritical, and notifyCritical is emitted infinitely often.
C28_EscalationLoops ==
    /\ (engine.recoveryStep = CriticalAlert) ~> ReenteredRetryCurrent
    /\ (engine.recoveryStep # None) ~> CriticalEmitted
    /\ (<>(engine.recoveryStep # None)) => []<>CriticalEmitted

\* The sequence was re-entered after the player had disconnected.
C28_Witness ==
    /\ ReenteredRetryCurrent
    /\ ~client
    /\ esc = <<RetryCurrent>>

\* ------------------------------------------- heartbeat monitor: SpecMonitor
\* The engine with every tick of the heartbeat monitor, also the ticks that
\* find nothing to do.
MonitorHeartbeats ==
    [videoIndex : {1}, videoId : {"v"}, playerState : {PLAYING}, currentTime : {170, 178},
     playbackQuality : {""}]

MonitorTick ==
    /\ engine.heartbeatCheckTimer
    /\ Commit(HeartbeatMonitorCallback(World(TRUE)), [kind |-> "monitorTick"])

NextMonitor ==
    \/ PlayerConnect
    \/ PlayerDisconnect
    \/ Heartbeat(MonitorHeartbeats)
    \/ TimePasses
    \/ MonitorTick
    \/ RecoveryTimerFire
    \/ LeakedTimerFire
    \/ HostCallReturns

SpecMonitor == Init /\ [][NextMonitor]_vars

\* A tick of the monitor has just run with the heartbeat overdue and step None.
TickOverdue ==
    /\ ev'.kind = "monitorTick"
    /\ engine.heartbeatOverdue
    /\ engine.recoveryStep = None

\* The player has been connected and has sent a heartbeat.
HeartbeatSeen == engine.lastProgressTime > 0

\* C29: after the player has disconnected, while step is None, the first tick of
\* the heartbeat monitor after heartbeatTimeoutMs has elapsed since the last
\* heartbeat starts the recovery sequence.
C29_MonitorStartsRecovery ==
    [][TickOverdue /\ ~client /\ HeartbeatSeen => engine'.recoveryStep = RetryCurrent]_vars

\* The same tick with the player connected.
TickStartsRecoveryWhenConnected ==
    [][TickOverdue /\ client =>
         /\ engine'.recoveryStep = RetryCurrent
         /\ out' = <<[type |-> "notifyRecovery", step |-> RetryCurrent],
                     [type |-> "retryCurrent"]>>]_vars

\* ------------------------------------------------ state writes: SpecWrite
\* The heartbeats of a player in every state and at every position, for the
\* state they persist.
WriteHeartbeats ==
    [videoIndex : 0..(MaxVideos - 1), videoId : {"v"},
     playerState : {PLAYING, PAUSED, BUFFERING, UNSTARTED}, currentTime : {0, 170, 178},
     playbackQuality : {""}]

HeartbeatReceived ==
    /\ client
    /\ \E msg \in WriteHeartbeats :
         Commit(HandleHeartbeat(World(TRUE), msg), [kind |-> "heartbeat", msg |-> msg])

NextWrite ==
    \/ PlayerConnect
    \/ PlayerDisconnect
    \/ HeartbeatReceived

SpecWrite == Init /\ [][NextWrite]_vars

\* The heartbeat just handled reports neither PLAYING nor PAUSED, at position 0.
IdleAtZero ==
    /\ ev'.msg.playerState \notin {PLAYING, PAUSED}
    /\ ev'.msg.currentTime = 0

\* C30: a heartbeat with playerState not in {PLAYING, PAUSED} and
\* currentTime = 0 leaves the persisted currentTime as it was and persists
\* its videoIndex and videoId (with them videoTitle, videoDuration and
\* nextVideoId); a heartbeat after whose stall detection stalledHeartbeats
\* is >= 3 writes no state at all.
C30_HeartbeatWrites ==
    [][ev'.kind = "heartbeat" =>
         /\ IdleAtZero =>
               /\ store'.current.currentTime = store.current.currentTime
               /\ store'.current.videoIndex = ev'.msg.videoIndex
               /\ store'.current.videoId = ev'.msg.videoId
               /\ store'.debounceTimer
         /\ engine'.stalledHeartbeats >= STALL_THRESHOLD => store' = store]_vars

\* A buffering heartbeat at position 0 of another video kept the saved
\* resume offset.
C30_Witness ==
    /\ ev.kind = "heartbeat"
    /\ ev.msg.playerState = BUFFERING
    /\ ev.msg.currentTime = 0
    /\ store.current = [playlistIndex |-> 0, videoIndex |-> 0, videoId |-> "v",
                        currentTime |-> 178]

\* A stalled heartbeat of another video left the state as loaded.
StalledHeartbeatNotWritten ==
    /\ ev.kind = "heartbeat"
    /\ engine.stalledHeartbeats > STALL_THRESHOLD
    /\ ev.msg.videoIndex # store.current.videoIndex

\* ------------------------------------------- non-playing detection, under Spec
NonPlayingNote == [type |-> "notifyRecovery", step |-> "nonPlaying"]

HeartbeatFired == ev'.kind = "heartbeat"

\* The heartbeat just handled started a recovery from the non-playing detector.
NonPlayingStarted ==
    /\ starts' = starts + 1
    /\ engine'.recoveryStep = RetryCurrent
    /\ \E i \in 1..Len(out') : out'[i] = NonPlayingNote

NonPlayingCounted ==
    HeartbeatFired =>
        CASE ev'.playerState = PLAYING -> engine'.nonPlayingHeartbeats = 0
          [] ev'.playerState = PAUSED ->
                engine'.nonPlayingHeartbeats = engine.nonPlayingHeartbeats
          [] OTHER ->
                /\ engine'.nonPlayingHeartbeats = engine.nonPlayingHeartbeats + 1
                /\ (engine'.nonPlayingHeartbeats >= NON_PLAYING_THRESHOLD
                      /\ engine.recoveryStep = None) => NonPlayingStarted
                /\ engine.recoveryStep # None => starts' = starts
                /\ engine'.nonPlayingHeartbeats < NON_PLAYING_THRESHOLD => starts' = starts

\* C31: a heartbeat that is neither PLAYING nor PAUSED adds one to
\* nonPlayingHeartbeats, and when the count is at 6 or more with step None
\* the engine starts recovery (the nonPlaying notification, step
\* RetryCurrent); with step other than None, or below 6, it starts none.  A
\* PLAYING heartbeat sets the count to 0, a PAUSED one leaves it as it was.
C31_NonPlayingDetection == [][NonPlayingCounted]_vars

\* The sixth non-playing heartbeat in a row has started recovery.
C31_Witness ==
    /\ ev.kind = "heartbeat"
    /\ ev.playerState = BUFFERING
    /\ ev.from = None
    /\ engine.nonPlayingHeartbeats = NON_PLAYING_THRESHOLD
    /\ engine.recoveryStep = RetryCurrent
    /\ \E i \in 1..Len(out) : out[i] = NonPlayingNote

\* ------------------------------------- heartbeats during recovery, under Spec
\* The heartbeat meets the stall condition.
MeetsStallCondition(m) ==
    m.playerState = PLAYING /\ m.currentTime > 0 /\ WithinASecond(m)

InRecovery == client /\ engine.recoveryStep # None

AfterHeartbeat(m) == RunMicrotasks(HandleHeartbeat(World(TRUE), m))

ProgressRecorded(w, m) ==
    /\ w.engine.stalledHeartbeats = 0
    /\ w.engine.lastProgressTime = m.currentTime

\* C32 as stated: while step # None, every heartbeat that does not meet the
\* stall condition sets stalledHeartbeats to 0 and lastProgressTime to its
\* currentTime and resets recovery to None.
C32_UnstalledHeartbeatResets ==
    InRecovery =>
        \A m \in EscHeartbeats :
            ~MeetsStallCondition(m) =>
                /\ ProgressRecorded(AfterHeartbeat(m), m)
                /\ AfterHeartbeat(m).engine.recoveryStep = None

\* C32 amended: while step # None, every heartbeat that does not meet the
\* stall condition sets stalledHeartbeats to 0 and lastProgressTime to its
\* currentTime.  A PLAYING one also resets recovery (notifyResume, step None,
\* timer cancelled), unless the low-quality detector starts a new recovery on
\* that same heartbeat; one that is not PLAYING leaves the step and the
\* pending transition as they are and emits no notifyResume.
C32_PlayingHeartbeatResets ==
    InRecovery =>
        \A m \in EscHeartbeats :
            ~MeetsStallCondition(m) =>
                /\ ProgressRecorded(AfterHeartbeat(m), m)
                /\ IF m.playerState = PLAYING
                   THEN ResetByHeartbeat(m)
                   ELSE /\ AfterHeartbeat(m).engine.recoveryStep = engine.recoveryStep
                        /\ AfterHeartbeat(m).engine.recoveryTimer = engine.recoveryTimer
                        /\ ~Sent(AfterHeartbeat(m), ResumeNote)

\* A BUFFERING heartbeat during a recovery that followed a stall has cleared
\* the stall count and left the step as it was.
C32_Witness ==
    /\ ev.kind = "heartbeat" /\ ev.playerState = BUFFERING
    /\ ev.from = RetryCurrent /\ ev.stalled
    /\ engine.recoveryStep = RetryCurrent
    /\ engine.recoveryTimer # NoTimer
    /\ engine.stalledHeartbeats = 0
    /\ engine.lastProgressTime = ev.currentTime

\* ------------------------------------------------ host launch: SpecObsLaunch
\* The client reconnects to a host that goes away and comes back, with
\* obsAutoRestart on or off; the process checks of tryLaunchObs answer at any
\* later time, and a spawned child may report an error.
ProcessCheckResults == {"err", "running", "spawned", "spawnThrows"}

\* execFile calls back with the output of tasklist, and spawn is called.
ProcessCheckReturns ==
    /\ obs.processChecks > 0
    /\ \E result \in ProcessCheckResults :
         ObsStep(ProcessCheckCallback(ObsNow, result),
                 [kind |-> "processCheck", result |-> result])

\* A spawned child emits 'error'.
SpawnError ==
    /\ obs.launches > 0
    /\ ObsStep(SpawnErrorCallback(ObsNow), [kind |-> "spawnError"])

InitObsLaunch ==
    /\ InitRecovery([nPlaylists : {1}, qualityRecoveryEnabled : {FALSE}], {Missing})
    /\ notifier = InitNotifier([webhookUrl |-> "", rolePing |-> ""])
    /\ obs \in {[InitObs([obsAutoStream |-> FALSE, obsAutoRestart |-> r,
                          obsPathFound |-> p]) EXCEPT !.connecting = TRUE]
                  : r \in BOOLEAN, p \in BOOLEAN}
    /\ ws = InitWs

NextObsLaunch ==
    \/ ConnectSucceeds
    \/ ConnectFails
    \/ ConnectionClosed
    \/ ReconnectTimerFire
    \/ ProcessCheckReturns
    \/ SpawnError

SpecObsLaunch == InitObsLaunch /\ [][NextObsLaunch]_vars

\* The last step spawned the host process.
Spawned == \E i \in DOMAIN obs.calls : obs.calls[i] = "spawn"

\* C33: the host process is spawned only with obsAutoRestart on and after at
\* least 2 failed connects in a row since the client last connected or lost
\* its connection, and at most one spawned process (not counting those that
\* reported an error) exists per disconnect cycle.
C33_OneLaunchPerCycle ==
    /\ Spawned => obs.config.obsAutoRestart
                    /\ obs.failedReconnects >= LAUNCH_AFTER_FAILURES
    /\ obs.launches <= 1

\* Each half on its own.
LaunchOnlyAfterFailures ==
    Spawned => obs.config.obsAutoRestart /\ obs.failedReconnects >= LAUNCH_AFTER_FAILURES

AtMostOneLaunch == obs.launches <= 1

\* ------------------------------------------------- config reload: SpecReload
\* reloadConfig stops the engine and builds a new one on the same state
\* store and player socket (index.ts 116-121).  engine.prev holds the fields
\* of the instance that was stopped, engine.reloads counts the reloads.
MaxReloads == 1

EngineFields(e) == [k \in DOMAIN InitEngine |-> e[k]]

\* An instance that has been stopped with nothing pending.
NoPrevious == EngineStop([engine |-> InitEngine]).engine

\* recovery.stop(); recovery = new RecoveryEngine(config, ...); recovery.start()
\* (index.ts 118-120, recovery.ts 58-74).
ReloadEngine(w, newConfig) ==
    LET stopped == EngineFields(EngineStop(w).engine)
        w1 == [w EXCEPT !.config = newConfig,
                        !.engine = [prev |-> stopped, reloads |-> w.engine.reloads + 1]
                                       @@ InitEngine]
    IN IF w1.client THEN OnPlayerConnect(w1) ELSE w1

\* The world as the stopped instance sees it: its own fields, the shared
\* state store and player socket.
OldWorld == [World(TRUE) EXCEPT !.engine = engine.prev]

\* A callback of the stopped instance has returned.
CommitOld(w0, e) ==
    LET w == RunMicrotasks(w0)
    IN /\ WithinBounds(w)
       /\ engine' = [engine EXCEPT !.prev = w.engine]
       /\ store' = w.store
       /\ file' = w.file
       /\ client' = w.client
       /\ out' = w.out
       /\ tmp' = w.tmp
       /\ proc' = w.proc
       /\ latest' = w.latest
       /\ ev' = e
       /\ UNCHANGED <<config, esc, starts, run, notifier, obs, ws>>

Reload ==
    /\ engine.reloads < MaxReloads
    /\ \E n \in 1..MaxPlaylists :
         LET w == RunMicrotasks(ReloadEngine(World(TRUE), [config EXCEPT !.nPlaylists = n]))
         IN /\ config' = w.config
            /\ engine' = w.engine
            /\ out' = w.out
            /\ ev' = [kind |-> "reload"]
            /\ esc' = <<>>
            /\ starts' = 0
            /\ UNCHANGED <<store, file, client, run, tmp, proc, latest, notifier, obs, ws>>

\* A host call or notification that the stopped instance awaits returns.
OldHostCallReturns ==
    \E step \in AwaitKinds :
        /\ engine.prev.awaiting[step] > 0
        /\ CommitOld(ExecuteStepResume(OldWorld, step), [kind |-> "oldCallReturn", step |-> step])

\* A recovery timer that the stopped instance armed after stop() fires; its
\* lastHeartbeatAt no longer changes, so the heartbeat is or becomes overdue.
OldRecoveryTimerFire ==
    /\ engine.prev.recoveryTimer # NoTimer
    /\ \E overdue \in {engine.prev.heartbeatOverdue, TRUE} :
         CommitOld(RecoveryTimerCallback(
                       ClearRecoveryTimer([OldWorld EXCEPT !.engine.heartbeatOverdue = overdue]),
                       engine.prev.recoveryTimer),
                   [kind |-> "oldRecoveryTimer", timer |-> engine.prev.recoveryTimer])

InitReload ==
    /\ InitRecoveryOf([nPlaylists : {1}, qualityRecoveryEnabled : {FALSE}],
                      {ToJson([playlistIndex |-> 1, videoIndex |-> 1, videoId |-> "abc",
                               currentTime |-> 178])},
                      [prev |-> NoPrevious, reloads |-> 0] @@ InitEngine)
    /\ notifier = InitNotifier([webhookUrl |-> "", rolePing |-> ""])
    /\ obs = InitObs([obsAutoStream |-> FALSE, obsAutoRestart |-> FALSE,
                      obsPathFound |-> FALSE])
    /\ ws = InitWs

\* The heartbeat monitor and the escalation run on both sides of the reload;
\* the pending work that the reload leaves behind is an awaited host call or
\* notification of the old instance.
NextReload ==
    \/ PlayerConnect
    \/ PlayerDisconnect
    \/ TimePasses
    \/ HeartbeatCheck
    \/ RecoveryTimerFire
    \/ LeakedTimerFire
    \/ HostCallReturns
    \/ Reload
    \/ OldHostCallReturns
    \/ OldRecoveryTimerFire

SpecReload == InitReload /\ [][NextReload]_vars

OldKinds == {"oldCallReturn", "oldRecoveryTimer"}

\* The timers that stop() clears are cleared on the stopped instance.
OldStopped ==
    /\ ~engine.prev.heartbeatCheckTimer
    /\ ~engine.prev.sourceRefreshTimer
    /\ engine.prev.recoveryTimer = NoTimer

\* A reload with a player connected keeps the store's contents and the
\* socket, clears the old instance's timers and has the new instance send one
\* loadPlaylist built from the persisted state.
ReloadFrame ==
    [][(ev'.kind = "reload" /\ client) =>
          /\ store'.current = store.current
          /\ client'
          /\ OldStopped'
          /\ OfType(out', "loadPlaylist") = <<ExpectedLoad'>>
          /\ engine'.recoveryStep = None]_vars

\* After the reload the stopped instance sends, calls and notifies nothing
\* and arms no timer.
OldEngineQuiet ==
    [][ev'.kind \in OldKinds =>
          /\ \A i \in 1..Len(out') : out'[i].type \notin Outward
          /\ engine'.prev.recoveryTimer = NoTimer]_vars

\* C34: a config reload while a player is connected leaves the state store's
\* contents and the player socket as they are, stops the old engine (which
\* from then on sends, calls and notifies nothing and arms no timer) and has
\* the new engine send exactly one loadPlaylist built from the persisted
\* playlistIndex, videoIndex and currentTime.
C34_ReloadSwapsEngine == ReloadFrame /\ OldEngineQuiet

\* ------------------------------------- the debounce window, under SpecNotifier
\* The time at which the message with the given content was accepted.
AcceptedAt(content) ==
    notifier.accepted[CHOOSE i \in Accepted : notifier.accepted[i].content = content].at

TimerRequests == {r \in Requests : notifier.requests[r].by = "timer"}

FirstOf(r) == notifier.requests[r].body.description[1].content

LastOf(r) ==
    notifier.requests[r].body.description[Len(notifier.requests[r].body.description)].content

\* A non-error send that finds the debounce timer pending.
JoinsWindow ==
    /\ notifier'.last.kind = "send"
    /\ notifier'.last.level # "error"
    /\ notifier.flushTimer
    /\ Len(notifier'.accepted) > Len(notifier.accepted)

\* C35 as stated: a non-error enqueue that finds the debounce timer pending
\* extends the window, so that the batch is flushed 5 s after its most recent
\* non-error enqueue, and never more than one debounce timer is pending.
C35_WindowExtends ==
    /\ notifier.armed <= 1
    /\ \A r \in TimerRequests : notifier.requests[r].at = AcceptedAt(LastOf(r)) + DEBOUNCE_MS

\* The timer fires 5 s after the first enqueue of its batch, and at most one
\* timer is pending, exactly when the handle is set.
WindowFromFirst ==
    /\ notifier.armed <= 1
    /\ notifier.flushTimer <=> notifier.armed = 1
    /\ \A r \in TimerRequests : notifier.requests[r].at = AcceptedAt(FirstOf(r)) + DEBOUNCE_MS

\* C35 amended: a non-error enqueue that finds the debounce timer pending
\* joins the batch and leaves the timer as it is: the batch is flushed 5 s
\* after its first enqueue (or earlier by an error-level message), and never
\* more than one debounce timer is pending.
C35_WindowFixed ==
    /\ []WindowFromFirst
    /\ [][JoinsWindow => /\ notifier'.flushTimer
                         /\ notifier'.dueAt = notifier.dueAt
                         /\ notifier'.armed = notifier.armed]_vars

\* The timer has flushed a batch whose last message was queued later than its
\* first.
C35_Witness ==
    \E r \in TimerRequests :
        /\ Len(notifier.requests[r].body.description) >= 2
        /\ AcceptedAt(LastOf(r)) > AcceptedAt(FirstOf(r))
        /\ notifier.requests[r].at = AcceptedAt(FirstOf(r)) + DEBOUNCE_MS

\* ------------------------------------------ changes of the step, under Spec
\* The changes of recoveryStep that the escalation makes one at a time.
StepSuccessors ==
    {<<None, RetryCurrent>>, <<RetryCurrent, RefreshSource>>,
     <<RefreshSource, ToggleVisibility>>, <<ToggleVisibility, CriticalAlert>>,
     <<CriticalAlert, None>>}

\* A callback that sets the step to None and starts a new recovery at once
\* (the 60 s timer, or a heartbeat that resets and whose quality detector
\* fires) changes the step twice: to None, then to RetryCurrent.
StartedAnew == starts' = starts + 1 /\ engine'.recoveryStep = RetryCurrent

StepChangeAllowed ==
    \/ engine'.recoveryStep = engine.recoveryStep
    \/ <<engine.recoveryStep, engine'.recoveryStep>> \in StepSuccessors
    \/ engine'.recoveryStep = None
    \/ StartedAnew

\* The step called ToggleBrowserSource.
TogglesNow == \E i \in 1..Len(out') : out'[i].type = "toggleBrowserSource"

\* RefreshBrowserSource was called since the most recent RetryCurrent.
RefreshedSinceRetry ==
    \E i \in 1..Len(esc), j \in 1..Len(esc) :
        i < j /\ esc[i] = RetryCurrent /\ esc[j] = RefreshSource
          /\ \A k \in (j + 1)..Len(esc) : esc[k] # RetryCurrent

\* C36: every change of the step is None->RetryCurrent,
\* RetryCurrent->RefreshSource, RefreshSource->ToggleVisibility,
\* ToggleVisibility->CriticalAlert, CriticalAlert->None or a reset to None,
\* and ToggleBrowserSource is called only if RefreshBrowserSource was called
\* since the most recent RetryCurrent.
C36_StepChangesInOrder ==
    [][StepChangeAllowed /\ (TogglesNow => RefreshedSinceRetry)]_vars

\* --------------------------------------------- recovery timers, under Spec
\* The recovery timers of the engine that are armed and have not fired:
\* the one this.recoveryTimer refers to and those it no longer refers to.
PendingTimers ==
    (IF engine.recoveryTimer # NoTimer THEN {engine.recoveryTimer} ELSE {}) \cup engine.leaked

HeldTimers == IF engine.recoveryTimer # NoTimer THEN 1 ELSE 0

\* With the step at None the callback of a scheduled transition returns at
\* once; the callback of the 60 s timer starts the sequence whatever the step.
CanExecuteAStep(t) == t.next = "restart" \/ engine.recoveryStep # None

AtMostOneTimer == HeldTimers + Cardinality(engine.leaked) <= 1

NoneHasNoLiveTimer ==
    engine.recoveryStep = None => \A t \in PendingTimers : ~CanExecuteAStep(t)

\* C37: at most one recovery-transition timer of the engine is pending at any
\* time, and while the step is None no pending recovery timer can still
\* execute a step.
C37_SingleRecoveryTimer == AtMostOneTimer /\ NoneHasNoLiveTimer


\* ------------------------------------------- playlist advance (C38 .. C40)
\* The index of the playlist the player holds. A connect loads the clamped
\* saved index and leaves the store alone; an advance stores the index it
\* loads: LoadedTracksStore checks both, so the clamped stored index names
\* the playlist of the latest loadPlaylist.
LoadedPlaylist == PlaylistIndexOf(World(TRUE))

LoadedTracksStore ==
    [][HasType(out', "loadPlaylist")
         => OfType(out', "loadPlaylist")[1].playlistId
              = PlaylistIds[(IF store'.current.playlistIndex < config'.nPlaylists
                             THEN store'.current.playlistIndex ELSE 0) + 1]]_vars

LoadsUnchangedOtherwise ==
    [][~HasType(out', "loadPlaylist")
         => store'.current.playlistIndex = store.current.playlistIndex]_vars

\* A stateChange or an error message has just advanced the playlist.
Advanced == ev'.kind \in {"stateChange", "error"} /\ HasType(out', "loadPlaylist")

CyclicSuccessor(i) == (i + 1) % config.nPlaylists

\* C38: every playlist-advance loads the cyclic successor of the playlist
\* most recently loaded into the player, whatever playlistIndex the state
\* file held, a saved index >= len(playlists) included.
C38_AdvanceLoadsSuccessor ==
    [][Advanced
         => \A i \in 1..Len(OfType(out', "loadPlaylist")) :
              OfType(out', "loadPlaylist")[i].playlistId
                = PlaylistIds[CyclicSuccessor(LoadedPlaylist) + 1]]_vars

\* The same for runs whose saved index was in range.
AdvanceLoadsSuccessorInRange ==
    [][Advanced /\ store.current.playlistIndex < config.nPlaylists
         => \A i \in 1..Len(OfType(out', "loadPlaylist")) :
              OfType(out', "loadPlaylist")[i].playlistId
                = PlaylistIds[CyclicSuccessor(LoadedPlaylist) + 1]]_vars


\* The output of the engine were it handed the message in the current state.
StateChangeLoads(msg) ==
    HasType(RunMicrotasks(HandleStateChange(World(TRUE), msg)).out, "loadPlaylist")

ErrorLoads(msg) ==
    HasType(RunMicrotasks(HandlePlaybackError(World(TRUE), msg)).out, "loadPlaylist")

\* totalVideos is 0 from an advance on, and only playlistLoaded raises it.
AdvanceClearsTotal == Advanced => engine.totalVideos > 0 /\ engine'.totalVideos = 0

TotalRaisedByLoaded ==
    engine.totalVideos = 0 /\ engine'.totalVideos > 0 => ev'.kind = "playlistLoaded"

\* C39: after a playlist-advance no second advance happens until a
\* playlistLoaded message has been processed: an advance needs
\* totalVideos > 0, the advance leaves it 0, and only playlistLoaded raises
\* it again.
C39_NoDoubleAdvance == [][AdvanceClearsTotal /\ TotalRaisedByLoaded]_vars

\* An advance to the second playlist has just been made, and neither a
\* repeated ENDED nor an error of the old playlist's last video would
\* advance again.
C39_Witness ==
    /\ ev.kind = "stateChange" /\ ev.msg.playerState = ENDED
    /\ HasType(out, "loadPlaylist")
    /\ config.nPlaylists > 1
    /\ store.current.playlistIndex = 1
    /\ ~StateChangeLoads(ev.msg)
    /\ \A code \in ErrorCodes :
         ~ErrorLoads([errorCode |-> code, videoIndex |-> ev.msg.videoIndex, videoId |-> "v"])


\* ------------------------------------------- error retry timers: SpecRetry
\* The retry timeouts of handlePlaybackError are anonymous in the program.
\* Here engine.retries lists the pending ones in the order they were armed
\* (all have the delay recoveryDelayMs, so they fire in that order), each
\* with the video whose error armed it and whether the engine has since
\* issued a skip or a playlist-advance for that video.
NoRetries == <<>>

IssuesSkip(w) == HasType(w.out, "skip") \/ HasType(w.out, "loadPlaylist")

MarkSkipped(retries, videoIndex) ==
    [i \in 1..Len(retries) |->
        IF retries[i].videoIndex = videoIndex
        THEN [retries[i] EXCEPT !.skipped = TRUE] ELSE retries[i]]

\* The bookkeeping for one handled error message: w is the world after the
\* handler has run.
TrackRetries(w, msg) ==
    LET marked == IF IssuesSkip(w) THEN MarkSkipped(engine.retries, msg.videoIndex)
                  ELSE engine.retries
    IN [w EXCEPT !.engine.retries =
           IF w.engine.retryTimers > engine.retryTimers
           THEN Append(marked, [videoIndex |-> msg.videoIndex, skipped |-> FALSE])
           ELSE marked]

\* An error message of the player (recovery.ts 267-269, 273-296).
TrackedError ==
    /\ client
    /\ \E msg \in [errorCode : ErrorCodes, videoIndex : 0..(MaxVideos - 1), videoId : {"v"}] :
         Commit(TrackRetries(RunMicrotasks(HandlePlaybackError(World(TRUE), msg)), msg),
                [kind |-> "error", msg |-> msg, ioOk |-> TRUE])

\* The oldest pending retry timeout fires (recovery.ts 293-295).
TrackedRetryTimerFire ==
    /\ engine.retries # NoRetries
    /\ Commit(WsSend([World(TRUE) EXCEPT !.engine.retryTimers = @ - 1,
                                         !.engine.retries = Tail(@)],
                     [type |-> "retryCurrent"]),
              [kind |-> "retryTimer", timer |-> Head(engine.retries)])

InitRetry ==
    /\ InitRecoveryOf([nPlaylists : 1..MaxPlaylists, qualityRecoveryEnabled : {FALSE}],
                      SeqFiles, [retries |-> NoRetries] @@ InitEngine)
    /\ notifier = InitNotifier([webhookUrl |-> "", rolePing |-> ""])
    /\ obs = InitObs([obsAutoStream |-> FALSE, obsAutoRestart |-> FALSE,
                      obsPathFound |-> FALSE])
    /\ ws = InitWs

NextRetry ==
    \/ PlayerConnect
    \/ PlayerDisconnect
    \/ PlaylistLoaded
    \/ TrackedError
    \/ TrackedRetryTimerFire

SpecRetry == InitRetry /\ [][NextRetry]_vars

\* The bookkeeping agrees with the engine's count of pending timeouts.
RetriesCounted == Len(engine.retries) = engine.retryTimers

\* C40: once the engine has issued a skip or a playlist-advance for a video,
\* no retryCurrent scheduled by an earlier playback error of that video is
\* sent to the player afterwards.
C40_NoRetryAfterSkip ==
    [][ev'.kind = "retryTimer" /\ ev'.timer.skipped => ~HasType(out', "retryCurrent")]_vars

\* A retry timer of a video that was not skipped since does send retryCurrent.
RetrySentForCurrent ==
    /\ ev.kind = "retryTimer" /\ ~ev.timer.skipped
    /\ out = <<[type |-> "retryCurrent"]>>

=========================================================================
